---- MODULE Spec2Model ----
(***************************************************************************)
(* Dispute automation decision engine of stripe-dispute-autopilot:         *)
(* evidence scoring (src/src/lib/evidence.ts), the JSON record store       *)
(* (src/src/lib/store.ts) and the HTTP / webhook handlers, the readiness   *)
(* engine and the retry sweep (src/src/index.ts, lines 370-1009).          *)
(*                                                                         *)
(* Conventions.  An optional string field that is undefined is Undef, an   *)
(* optional number that is undefined is NoTime (-1; every timestamp of the *)
(* program is >= 0).  Timestamps are epoch seconds; the ISO strings the    *)
(* program stores (updatedAt, at, deflectedAt) are modelled by the second  *)
(* they denote.  An async handler is cut at its await points: the part     *)
(* before the await is one action, the part after it another, and the      *)
(* handler's local variables live in its request slot between the two.     *)
(***************************************************************************)
EXTENDS Integers, Sequences, FiniteSets, TLC

\* ------------------------------------------------------------------ values

Undef == "undefined"
NoTime == -1

Truthy(s) == s # Undef /\ s # ""

Min(a, b) == IF a <= b THEN a ELSE b

\* ------------------------------------------------------------------ bounds

MaxTicks == 2

MaxFailures == 1

TickSeconds == 60

StartTime == 1000

\* --------------------------------------------------- store.ts: defaults

MerchantIdOf(account) == IF account = "acct_1" THEN "m_1" ELSE Undef

defaultMerchantSettings ==
    [ autoSubmitEnabled |-> FALSE,
      autoSubmitReasons |-> {},
      minEvidenceScore |-> 70,
      manualReviewAmountThreshold |-> 200000,
      submissionDelayMinutes |-> 0,
      statementDescriptor |-> << >> ]

defaultEvidenceProfile ==
    [ productDescriptionTemplate |-> "coaching program",
      termsUrl |-> "",
      refundPolicyUrl |-> "",
      cancellationPolicyUrl |-> "",
      onboardingProofTemplate |-> "onboarding completed",
      deliveryProofTemplate |-> "access delivered",
      supportPolicyTemplate |-> "support logs" ]

\* ------------------------------------------------ evidence.ts: the scorer

\* `${a}\n${b}`.trim() of index.ts:901, a and b free of surrounding blanks.
JoinTrim(a, b) ==
    IF a = "" THEN b
    ELSE IF b = "" THEN a
    ELSE a \o "\n" \o b

OrEmpty(s) == IF s = Undef THEN "" ELSE s

\* Mutant: a field scores whether it is present or not.
ScoreOf_always(present, weight) == weight

ScoreOf(present, weight) == IF present THEN weight ELSE 0

rawScore(i) ==
      ScoreOf(Truthy(i.customerName), 10)
    + ScoreOf(Truthy(i.customerEmail), 10)
    + ScoreOf(Truthy(i.productDescription), 15)
    + ScoreOf(Truthy(i.supportInteraction), 15)
    + ScoreOf(Truthy(i.termsUrl), 10)
    + ScoreOf(Truthy(i.refundPolicyUrl), 10)
    + ScoreOf(Truthy(i.cancellationPolicyUrl), 10)
    + ScoreOf(Truthy(i.accessLog), 10)
    + ScoreOf(Truthy(i.shippingTrackingNumber), 10)

scoreEvidence(i) == Min(100, rawScore(i))

reasonSpecificSummary(reason) ==
    CASE reason = "fraudulent" -> "fraud playbook"
      [] reason = "product_not_received" -> "delivery playbook"
      [] reason = "product_unacceptable" -> "product-quality playbook"
      [] reason = "subscription_canceled" -> "subscription playbook"
      [] reason = "duplicate" -> "duplicate-charge playbook"
      [] OTHER -> "general playbook"

\* The payload keeps the submit flag and the fields the scorer renders; the
\* summary is the playbook line followed by the score line.
buildEvidencePackage(i) ==
    [ payload |-> [ customer_name |-> OrEmpty(i.customerName),
                    customer_email_address |-> OrEmpty(i.customerEmail),
                    submit |-> FALSE ],
      score |-> scoreEvidence(i),
      summary |-> << reasonSpecificSummary(i.reason), <<"Evidence score", scoreEvidence(i)>> >> ]

\* ---------------------------------------------------------------- state

VARIABLES
    disputes,     \* db.disputes of data/db.json: dispute id -> DisputeRecord
    settings,     \* settings of merchant m_1 (account acct_1)
    profile,      \* evidenceProfile of merchant m_1
    now,          \* the wall clock, epoch seconds
    ops,          \* request slot -> the handler suspended at an await in it
    failBudget,   \* processor calls the environment may still fail
    out           \* what the last handler step did: response and call issued

vars == << disputes, settings, profile, now, ops, failBudget, out >>

\* ------------------------------------------------------- store.ts: merchants

findSettings(merchantId) ==
    IF merchantId = "m_1" THEN settings ELSE defaultMerchantSettings

findProfile(merchantId) ==
    IF merchantId = "m_1" THEN profile ELSE defaultEvidenceProfile

\* Mutant: writing the settings also switches auto-submit on.
updateMerchantSettings_enables(patch) ==
    [ k \in DOMAIN settings |->
        IF k = "autoSubmitEnabled" THEN TRUE
        ELSE IF k \in DOMAIN patch THEN patch[k] ELSE settings[k] ]

\* { ...settings, ...patch }
updateMerchantSettings(patch) ==
    [ k \in DOMAIN settings |-> IF k \in DOMAIN patch THEN patch[k] ELSE settings[k] ]

updateMerchantEvidenceProfile(patch) ==
    [ k \in DOMAIN profile |-> IF k \in DOMAIN patch THEN patch[k] ELSE profile[k] ]

\* -------------------------------------------------------- store.ts: disputes

AttemptCap == 20

\* The fields of a stored DisputeRecord; a field a record does not carry is
\* stored with its undefined value (JSON.stringify drops it).
BlankRecord ==
    [ id |-> Undef, merchantId |-> Undef, chargeId |-> Undef, reason |-> Undef,
      amount |-> 0, status |-> Undef, dueBy |-> NoTime, disputeCreatedAt |-> NoTime,
      updatedAt |-> NoTime, submitted |-> FALSE, deflected |-> FALSE,
      deflectionReason |-> Undef, deflectedAt |-> NoTime, evidenceScore |-> 0,
      manualReviewRequired |-> FALSE, evidenceSummary |-> << >>,
      submissionAttempts |-> << >>, latestError |-> Undef, owner |-> Undef,
      workflowStatus |-> Undef, nextActionAt |-> Undef, internalNotes |-> Undef ]

\* { ...old, ...record }: every field record carries wins, the rest stay.
Spread(old, record) ==
    [ k \in DOMAIN old |-> IF k \in DOMAIN record THEN record[k] ELSE old[k] ]

\* Mutant: the new record replaces the stored one, not merged into it.
upsertDispute_replaces(db, record) ==
    [ i \in DOMAIN db \cup {record.id} |->
        IF i = record.id THEN Spread(BlankRecord, record) ELSE db[i] ]

upsertDispute(db, record) ==
    IF record.id \in DOMAIN db
    THEN [ db EXCEPT ![record.id] = Spread(db[record.id], record) ]
    ELSE [ i \in DOMAIN db \cup {record.id} |->
             IF i = record.id THEN Spread(BlankRecord, record) ELSE db[i] ]

markSubmitted(db, id, t) ==
    IF id \notin DOMAIN db THEN db
    ELSE [ db EXCEPT ![id].submitted = TRUE, ![id].updatedAt = t ]

\* Mutant: the deflection marks the record submitted as well.
markDeflected_marksSubmitted(db, id, reason, t) ==
    IF id \notin DOMAIN db THEN db
    ELSE [ db EXCEPT ![id].deflected = TRUE, ![id].deflectionReason = reason,
                     ![id].deflectedAt = t, ![id].updatedAt = t,
                     ![id].submitted = TRUE ]

markDeflected(db, id, reason, t) ==
    IF id \notin DOMAIN db THEN db
    ELSE [ db EXCEPT ![id].deflected = TRUE, ![id].deflectionReason = reason,
                     ![id].deflectedAt = t, ![id].updatedAt = t ]

\* Mutant: the cap keeps the oldest entries.
LastN_keepsOldest(s, n) == SubSeq(s, 1, Min(Len(s), n))

\* slice(-20): the last AttemptCap entries
LastN(s, n) == IF Len(s) <= n THEN s ELSE SubSeq(s, Len(s) - n + 1, Len(s))

addSubmissionAttempt(db, id, attempt, t) ==
    IF id \notin DOMAIN db THEN db
    ELSE [ db EXCEPT
             ![id].submissionAttempts = LastN(Append(@, attempt), AttemptCap),
             ![id].updatedAt = t,
             ![id].latestError = IF attempt.success THEN @ ELSE attempt.message ]

updateDisputeWorkflow(db, id, patch, t) ==
    IF id \notin DOMAIN db THEN db
    ELSE [ db EXCEPT ![id] = [ Spread(@, patch) EXCEPT !.updatedAt = t ] ]

\* ------------------------------------------------- index.ts: the readiness

Closed(status) == status = "won" \/ status = "lost"

\* Mutant: an empty allow-list allows nothing.
reasonAllowed_emptyBlocks(s, reason) == reason \in s.autoSubmitReasons

reasonAllowed(s, reason) ==
    IF s.autoSubmitReasons # {} THEN reason \in s.autoSubmitReasons ELSE TRUE

\* A number the code tests for truthiness: undefined and 0 are falsy.
TruthyNum(n) == n # NoTime /\ n # 0

isWithinDelayWindow(d, s, t) ==
    /\ TruthyNum(d.disputeCreatedAt)
    /\ s.submissionDelayMinutes * 60 > 0
    /\ t - d.disputeCreatedAt < s.submissionDelayMinutes * 60

\* Mutant: a due date that is past counts like one far ahead.
dueUrgency_overdueAsBeyond(dueByField, t) ==
    LET dueBy == IF TruthyNum(dueByField) THEN dueByField ELSE 0
        secondsToDue == dueBy - t
    IN  IF dueBy = 0 \/ secondsToDue = 0 THEN 50
        ELSE IF secondsToDue < 0 THEN 65
        ELSE IF secondsToDue <= 4 * 60 * 60 THEN 98
        ELSE IF secondsToDue <= 24 * 60 * 60 THEN 90
        ELSE IF secondsToDue <= 48 * 60 * 60 THEN 80
        ELSE 65

\* Lines 586-599; !secondsToDue holds without a due date and also when the
\* dispute is due at this very second.
dueUrgency(dueByField, t) ==
    LET dueBy == IF TruthyNum(dueByField) THEN dueByField ELSE 0
        secondsToDue == dueBy - t
    IN  IF dueBy = 0 \/ secondsToDue = 0 THEN 50
        ELSE IF secondsToDue < 0 THEN 100
        ELSE IF secondsToDue <= 4 * 60 * 60 THEN 98
        ELSE IF secondsToDue <= 24 * 60 * 60 THEN 90
        ELSE IF secondsToDue <= 48 * 60 * 60 THEN 80
        ELSE 65

\* Math.round(amount / 5000): the nearest integer, a half rounded up
amountUrgency(amount) == Min(25, (amount + 2500) \div 5000)

\* Mutant: the score rule tried before the manual review rule.
readinessOf_scoreFirst(d, s, t) ==
    IF Closed(d.status) THEN [ ready |-> FALSE, reason |-> "closed", priority |-> 0 ]
    ELSE IF d.submitted THEN [ ready |-> FALSE, reason |-> "already_submitted", priority |-> 0 ]
    ELSE IF ~s.autoSubmitEnabled
      THEN [ ready |-> FALSE, reason |-> "auto_submit_disabled", priority |-> 20 ]
    ELSE IF ~reasonAllowed(s, d.reason)
      THEN [ ready |-> FALSE, reason |-> "reason_not_allowed", priority |-> 25 ]
    ELSE IF d.evidenceScore < s.minEvidenceScore
      THEN [ ready |-> FALSE, reason |-> "score_below_threshold", priority |-> 85 ]
    ELSE IF d.manualReviewRequired
      THEN [ ready |-> FALSE, reason |-> "manual_review_required", priority |-> 95 ]
    ELSE IF isWithinDelayWindow(d, s, t)
      THEN [ ready |-> FALSE, reason |-> "submission_delay_window_active", priority |-> 60 ]
    ELSE [ ready |-> TRUE, reason |-> "ready",
           priority |-> Min(100, dueUrgency(d.dueBy, t) + amountUrgency(d.amount)) ]

readinessOf(d, s, t) ==
    IF Closed(d.status) THEN [ ready |-> FALSE, reason |-> "closed", priority |-> 0 ]
    ELSE IF d.submitted THEN [ ready |-> FALSE, reason |-> "already_submitted", priority |-> 0 ]
    ELSE IF ~s.autoSubmitEnabled
      THEN [ ready |-> FALSE, reason |-> "auto_submit_disabled", priority |-> 20 ]
    ELSE IF ~reasonAllowed(s, d.reason)
      THEN [ ready |-> FALSE, reason |-> "reason_not_allowed", priority |-> 25 ]
    ELSE IF d.manualReviewRequired
      THEN [ ready |-> FALSE, reason |-> "manual_review_required", priority |-> 95 ]
    ELSE IF isWithinDelayWindow(d, s, t)
      THEN [ ready |-> FALSE, reason |-> "submission_delay_window_active", priority |-> 60 ]
    ELSE IF d.evidenceScore < s.minEvidenceScore
      THEN [ ready |-> FALSE, reason |-> "score_below_threshold", priority |-> 85 ]
    ELSE [ ready |-> TRUE, reason |-> "ready",
           priority |-> Min(100, dueUrgency(d.dueBy, t) + amountUrgency(d.amount)) ]

getSubmissionReadiness(db, id) ==
    IF id \notin DOMAIN db
    THEN [ ready |-> FALSE, reason |-> "dispute_not_found", priority |-> 0 ]
    ELSE readinessOf(db[id], findSettings(db[id].merchantId), now)

\* ------------------------------------------- index.ts: handlers, common

Idle == [ kind |-> "idle" ]

NoCall == [ kind |-> "none", id |-> Undef, submit |-> FALSE ]

Call(kind, id, submit) == [ kind |-> kind, id |-> id, submit |-> submit ]

\* One handler step as seen from outside: the handler, the dispute, the HTTP
\* (event.data.object, or the id of the request), the HTTP status it answered
\* with (0: suspended at an await, no answer yet), the { ok, message } it
\* computed and the processor call it issued.
Out(op, input, status, ok, message, call) ==
    [ op |-> op, id |-> input.id, input |-> input, status |-> status, ok |-> ok,
      message |-> message, call |-> call ]

\* The input of a handler that is given a dispute id only
OnlyId(id) ==
    [ id |-> id, charge |-> Undef, reason |-> Undef, amount |-> 0, status |-> Undef,
      dueBy |-> NoTime, created |-> NoTime ]

Attempt(t, success, message) == [ at |-> t, success |-> success, message |-> message ]

LowerChar(c) ==
    CASE c = "A" -> "a"
      [] c = "B" -> "b"
      [] OTHER -> c

toLowerCase(str) == [ i \in 1..Len(str) |-> LowerChar(str[i]) ]

includes(hay, needle) ==
    \E i \in 0..(Len(hay) - Len(needle)) : SubSeq(hay, i + 1, i + Len(needle)) = needle

\* ----------------------------- index.ts: webhook charge.dispute.created/updated

\* An event is [ type, account, dispute ]: event.type, event.account and
\* event.data.object, the dispute as the processor holds it:
\* [ id, charge, reason, amount, status, dueBy, created ].

NoCharge == [ email |-> "", name |-> "", descriptor |-> << >> ]

descriptorNotes(s, chargeStatementDescriptor) ==
    IF s.statementDescriptor = << >> THEN << >>
    ELSE IF chargeStatementDescriptor = << >> THEN << "no statement descriptor on charge" >>
    ELSE IF ~includes(toLowerCase(chargeStatementDescriptor), toLowerCase(s.statementDescriptor))
      THEN << "descriptor mismatch" >>
    ELSE << >>

evidenceInput(dispute, p, ctx) ==
    [ reason |-> dispute.reason,
      customerEmail |-> ctx.email,
      customerName |-> ctx.name,
      productDescription |-> p.productDescriptionTemplate,
      termsUrl |-> p.termsUrl,
      refundPolicyUrl |-> p.refundPolicyUrl,
      cancellationPolicyUrl |-> p.cancellationPolicyUrl,
      accessLog |-> p.deliveryProofTemplate,
      supportInteraction |->
          JoinTrim(OrEmpty(p.supportPolicyTemplate), OrEmpty(p.onboardingProofTemplate)),
      shippingTrackingNumber |-> Undef ]

delaySatisfied(s, created, t) ==
    s.submissionDelayMinutes * 60 <= 0 \/ t - created >= s.submissionDelayMinutes * 60

manualReviewRequired(s, dispute) == dispute.amount >= s.manualReviewAmountThreshold

\* Mutant: the decision without the delay gate.
shouldAutoSubmit_noDelay(s, dispute, score, t) ==
    /\ s.autoSubmitEnabled
    /\ reasonAllowed(s, dispute.reason)
    /\ score >= s.minEvidenceScore
    /\ ~manualReviewRequired(s, dispute)

shouldAutoSubmit(s, dispute, score, t) ==
    /\ s.autoSubmitEnabled
    /\ reasonAllowed(s, dispute.reason)
    /\ score >= s.minEvidenceScore
    /\ ~manualReviewRequired(s, dispute)
    /\ delaySatisfied(s, dispute.created, t)

\* Lines 891-929: the handler's locals once the charge context is known, at
\* the await of disputes.update.
decide(account, dispute, s, p, ctx, t) ==
    LET built == buildEvidencePackage(evidenceInput(dispute, p, ctx))
        submit == shouldAutoSubmit(s, dispute, built.score, t)
    IN  [ kind |-> "webhook", phase |-> "update", account |-> account, dispute |-> dispute,
          settings |-> s,
          score |-> built.score,
          summary |-> built.summary \o descriptorNotes(s, ctx.descriptor),
          manualReviewRequired |-> manualReviewRequired(s, dispute),
          shouldAutoSubmit |-> submit,
          payload |-> [ built.payload EXCEPT !.submit = submit ] ]

\* Mutant: the creation time is taken from the event whatever is stored.
createdAtOr_fromEvent(db, id, fallback) == fallback

\* existing?.field ?? fallback, for the optional number disputeCreatedAt
createdAtOr(db, id, fallback) ==
    IF id \in DOMAIN db /\ db[id].disputeCreatedAt # NoTime
    THEN db[id].disputeCreatedAt ELSE fallback

\* Mutant: the stored record is not looked up before the write.
existingOf_notRead(db, id) == BlankRecord

\* const existing = getDispute(dispute.id), undefined read as a record of
\* undefined fields
existingOf(db, id) == IF id \in DOMAIN db THEN db[id] ELSE BlankRecord

\* Lines 953-959
webhookAttempts(op, db, t) ==
    << Attempt(t, TRUE, IF op.shouldAutoSubmit THEN "Auto-submitted successfully."
                        ELSE "Evidence updated; pending review.") >>

\* Lines 933-960: the record handed to upsertDispute.
webhookRecord(op, db, t) ==
    [ id |-> op.dispute.id,
      merchantId |-> MerchantIdOf(op.account),
      chargeId |-> op.dispute.charge,
      reason |-> op.dispute.reason,
      amount |-> op.dispute.amount,
      status |-> op.dispute.status,
      dueBy |-> op.dispute.dueBy,
      disputeCreatedAt |-> createdAtOr(db, op.dispute.id, op.dispute.created),
      updatedAt |-> t,
      submitted |-> op.shouldAutoSubmit,
      deflected |-> existingOf(db, op.dispute.id).deflected,
      deflectionReason |-> existingOf(db, op.dispute.id).deflectionReason,
      deflectedAt |-> existingOf(db, op.dispute.id).deflectedAt,
      evidenceScore |-> op.score,
      manualReviewRequired |-> op.manualReviewRequired,
      evidenceSummary |-> op.summary,
      submissionAttempts |-> webhookAttempts(op, db, t) ]

IsUpsertEvent(ev) == ev.type \in {"charge.dispute.created", "charge.dispute.updated"}

\* Lines 866-889: the event arrives; with a charge id the handler awaits the
\* charge lookup, without one it goes on to lines 891-931.
WebhookReceive(slot, ev) ==
    /\ ops[slot] = Idle
    /\ IsUpsertEvent(ev)
    /\ LET s == findSettings(MerchantIdOf(ev.account))
           p == findProfile(MerchantIdOf(ev.account))
       IN  IF Truthy(ev.dispute.charge)
           THEN /\ ops' = [ ops EXCEPT ![slot] =
                              [ kind |-> "webhook", phase |-> "charge", account |-> ev.account,
                                dispute |-> ev.dispute, settings |-> s, profile |-> p ] ]
                /\ out' = Out("webhook", ev.dispute, 0, TRUE, "awaiting charge",
                              Call("charges.retrieve", ev.dispute.id, FALSE))
           ELSE LET op == decide(ev.account, ev.dispute, s, p, NoCharge, now)
                IN  /\ ops' = [ ops EXCEPT ![slot] = op ]
                    /\ out' = Out("webhook", ev.dispute, 0, TRUE, "awaiting update",
                                  Call("disputes.update", ev.dispute.id, op.payload.submit))
    /\ UNCHANGED << disputes, settings, profile, now, failBudget >>

\* Lines 881-931: the charge lookup answers; charges maps a charge id to the
\* billing details and descriptor the processor holds for it.
WebhookChargeOk(slot, charges) ==
    /\ ops[slot].kind = "webhook" /\ ops[slot].phase = "charge"
    /\ LET op == decide(ops[slot].account, ops[slot].dispute, ops[slot].settings,
                        ops[slot].profile, charges[ops[slot].dispute.charge], now)
       IN  /\ ops' = [ ops EXCEPT ![slot] = op ]
           /\ out' = Out("webhook", op.dispute, 0, TRUE, "awaiting update",
                         Call("disputes.update", op.dispute.id, op.payload.submit))
    /\ UNCHANGED << disputes, settings, profile, now, failBudget >>

\* Lines 992-995: a processor call of the handler throws.
WebhookCallFails(slot) ==
    /\ ops[slot].kind = "webhook"
    /\ failBudget > 0
    /\ failBudget' = failBudget - 1
    /\ ops' = [ ops EXCEPT ![slot] = Idle ]
    /\ out' = Out("webhook", ops[slot].dispute, 500, FALSE, "internal_error", NoCall)
    /\ UNCHANGED << disputes, settings, profile, now >>

\* Lines 933-962 and 991: disputes.update answered.
webhookStore(op, db, t) ==
    LET stored == upsertDispute(db, webhookRecord(op, db, t))
    IN  IF op.shouldAutoSubmit THEN markSubmitted(stored, op.dispute.id, t) ELSE stored

WebhookUpdateOk(slot) ==
    /\ ops[slot].kind = "webhook" /\ ops[slot].phase = "update"
    /\ disputes' = webhookStore(ops[slot], disputes, now)
    /\ ops' = [ ops EXCEPT ![slot] = Idle ]
    /\ out' = Out("webhook", ops[slot].dispute, 200, TRUE, "received", NoCall)
    /\ UNCHANGED << settings, profile, now, failBudget >>

\* ---------------------------------- index.ts: webhook charge.dispute.closed

\* Mutant: a closed event leaves submitted unset.
closedSubmitted_unset == FALSE

\* Line 980
closedSubmitted == TRUE

\* Lines 968-988: the record handed to upsertDispute.
closedRecord(dispute, db, t) ==
    [ id |-> dispute.id,
      merchantId |-> existingOf(db, dispute.id).merchantId,
      chargeId |-> dispute.charge,
      reason |-> dispute.reason,
      amount |-> dispute.amount,
      status |-> dispute.status,
      dueBy |-> dispute.dueBy,
      disputeCreatedAt |-> createdAtOr(db, dispute.id, dispute.created),
      updatedAt |-> t,
      submitted |-> closedSubmitted,
      deflected |-> existingOf(db, dispute.id).deflected,
      deflectionReason |-> existingOf(db, dispute.id).deflectionReason,
      deflectedAt |-> existingOf(db, dispute.id).deflectedAt,
      evidenceScore |-> existingOf(db, dispute.id).evidenceScore,
      manualReviewRequired |-> existingOf(db, dispute.id).manualReviewRequired,
      evidenceSummary |-> existingOf(db, dispute.id).evidenceSummary,
      submissionAttempts |-> existingOf(db, dispute.id).submissionAttempts ]

\* Lines 965-991: no await, the handler runs to its answer.
WebhookClosed(ev) ==
    /\ ev.type = "charge.dispute.closed"
    /\ disputes' = upsertDispute(disputes, closedRecord(ev.dispute, disputes, now))
    /\ out' = Out("webhook_closed", ev.dispute, 200, TRUE, "received", NoCall)
    /\ UNCHANGED << settings, profile, now, ops, failBudget >>

\* ------------------------------------------------ index.ts: attemptSubmit

\* Mutant: attemptSubmit calls the processor for every stored dispute.
attemptCheck_ignoresReadiness(db, id) ==
    IF id \notin DOMAIN db THEN "dispute_not_found" ELSE "call"

\* Lines 814-818: what attemptSubmit returns before any await, or "call" when
\* it goes on to the processor.
attemptCheck(db, id) ==
    IF id \notin DOMAIN db THEN "dispute_not_found"
    ELSE IF ~getSubmissionReadiness(db, id).ready THEN getSubmissionReadiness(db, id).reason
    ELSE "call"

\* Mutant: the success is logged but the record is not marked submitted.
attemptSucceeded_notMarked(db, id, t) ==
    addSubmissionAttempt(db, id, Attempt(t, TRUE, "Auto retry submission successful."), t)

\* Lines 833-838
attemptSucceeded(db, id, t) ==
    addSubmissionAttempt(markSubmitted(db, id, t), id,
                         Attempt(t, TRUE, "Auto retry submission successful."), t)

\* Mutant: a failed attempt marks the record submitted all the same.
attemptFailed_marksSubmitted(db, id, msg, t) ==
    addSubmissionAttempt(markSubmitted(db, id, t), id, Attempt(t, FALSE, msg), t)

\* Mutant: the failure is logged under a fixed message, not the error's own.
attemptFailed_fixedMessage(db, id, msg, t) ==
    addSubmissionAttempt(db, id, Attempt(t, FALSE, "submit_failed"), t)

\* Lines 841-842
attemptFailed(db, id, msg, t) ==
    addSubmissionAttempt(db, id, Attempt(t, FALSE, msg), t)

\* Lines 730-738: the answer of POST /disputes/:id/retry-submit to an
\* attemptSubmit that returned { ok: false, message }.
retryStatus(message) ==
    IF message = "dispute_not_found" THEN 404
    ELSE IF message = "already_submitted" THEN 200
    ELSE 500

\* POST /disputes/:id/retry-submit up to the await of disputes.update.
RetrySubmit(slot, id) ==
    /\ ops[slot] = Idle
    /\ LET r == attemptCheck(disputes, id)
       IN  IF r = "call"
           THEN /\ ops' = [ ops EXCEPT ![slot] = [ kind |-> "retry", id |-> id ] ]
                /\ out' = Out("retry", OnlyId(id), 0, TRUE, "awaiting update",
                              Call("disputes.update", id, TRUE))
           ELSE /\ ops' = ops
                /\ out' = Out("retry", OnlyId(id), retryStatus(r), FALSE, r, NoCall)
    /\ UNCHANGED << disputes, settings, profile, now, failBudget >>

RetryUpdateOk(slot) ==
    /\ ops[slot].kind = "retry"
    /\ disputes' = attemptSucceeded(disputes, ops[slot].id, now)
    /\ ops' = [ ops EXCEPT ![slot] = Idle ]
    /\ out' = Out("retry_result", OnlyId(ops[slot].id), 200, TRUE, "submitted", NoCall)
    /\ UNCHANGED << settings, profile, now, failBudget >>

RetryUpdateFails(slot, msg) ==
    /\ ops[slot].kind = "retry"
    /\ failBudget > 0
    /\ failBudget' = failBudget - 1
    /\ disputes' = attemptFailed(disputes, ops[slot].id, msg, now)
    /\ ops' = [ ops EXCEPT ![slot] = Idle ]
    /\ out' = Out("retry_result", OnlyId(ops[slot].id), 500, FALSE, msg, NoCall)
    /\ UNCHANGED << settings, profile, now >>

\* ---------------------------------------------- index.ts: runAutoRetrySweep

RECURSIVE skipNotReady(_, _)
\* The loop of lines 850-852 up to the first dispute attemptSubmit goes to
\* the processor for: an attemptSubmit that returns at line 815 or 818
\* changes nothing and the loop goes on.
skipNotReady(db, pending) ==
    IF pending = << >> THEN << >>
    ELSE IF attemptCheck(db, Head(pending)) = "call" THEN pending
    ELSE skipNotReady(db, Tail(pending))

\* listDisputes(): every listing of the records by descending updatedAt.
IsListing(order, db, ids) ==
    /\ Len(order) = Cardinality(ids)
    /\ { order[i] : i \in 1..Len(order) } = ids
    /\ \A i \in 1..(Len(order) - 1) : db[order[i]].updatedAt >= db[order[i + 1]].updatedAt

\* Mutant: a dispute whose last attempt failed is left out of later sweeps.
pendingIds_skipsFailed(db) ==
    { i \in DOMAIN db : ~db[i].submitted /\ ~Closed(db[i].status) /\ db[i].latestError = Undef }

pendingIds(db) == { i \in DOMAIN db : ~db[i].submitted /\ ~Closed(db[i].status) }

\* Mutant: an attempt that failed ends the loop.
sweepGoesOn_stopsOnFailure(slot, db, rest, ok) ==
    LET todo == IF ok THEN skipNotReady(db, rest) ELSE << >>
    IN  IF todo = << >>
        THEN /\ ops' = [ ops EXCEPT ![slot] = Idle ]
             /\ out' = Out("sweep", OnlyId(Undef), 200, TRUE, "swept", NoCall)
        ELSE /\ ops' = [ ops EXCEPT ![slot] = [ kind |-> "sweep", pending |-> todo ] ]
             /\ out' = Out("sweep", OnlyId(Head(todo)), 0, ok, "awaiting update",
                           Call("disputes.update", Head(todo), TRUE))

\* Mutant: after a failed attempt the loop attempts the same dispute again.
sweepGoesOn_retriesFailed(slot, db, rest, ok) ==
    LET todo == IF ok THEN skipNotReady(db, rest) ELSE skipNotReady(db, ops[slot].pending)
    IN  IF todo = << >>
        THEN /\ ops' = [ ops EXCEPT ![slot] = Idle ]
             /\ out' = Out("sweep", OnlyId(Undef), 200, TRUE, "swept", NoCall)
        ELSE /\ ops' = [ ops EXCEPT ![slot] = [ kind |-> "sweep", pending |-> todo ] ]
             /\ out' = Out("sweep", OnlyId(Head(todo)), 0, ok, "awaiting update",
                           Call("disputes.update", Head(todo), TRUE))

\* Lines 850-852: the loop goes on with the disputes after the one just
\* attempted; ok is what that attemptSubmit returned (true at the start of
\* the loop), which the loop does not look at.  The answer once the loop is
\* over is line 727's { ok: true }.
sweepGoesOn(slot, db, rest, ok) ==
    LET todo == skipNotReady(db, rest)
    IN  IF todo = << >>
        THEN /\ ops' = [ ops EXCEPT ![slot] = Idle ]
             /\ out' = Out("sweep", OnlyId(Undef), 200, TRUE, "swept", NoCall)
        ELSE /\ ops' = [ ops EXCEPT ![slot] = [ kind |-> "sweep", pending |-> todo ] ]
             /\ out' = Out("sweep", OnlyId(Head(todo)), 0, ok, "awaiting update",
                           Call("disputes.update", Head(todo), TRUE))

SweepStart(slot, order) ==
    /\ ops[slot] = Idle
    /\ IsListing(order, disputes, pendingIds(disputes))
    /\ sweepGoesOn(slot, disputes, order, TRUE)
    /\ UNCHANGED << disputes, settings, profile, now, failBudget >>

SweepUpdateOk(slot) ==
    /\ ops[slot].kind = "sweep"
    /\ disputes' = attemptSucceeded(disputes, Head(ops[slot].pending), now)
    /\ sweepGoesOn(slot, disputes', Tail(ops[slot].pending), TRUE)
    /\ UNCHANGED << settings, profile, now, failBudget >>

SweepUpdateFails(slot, msg) ==
    /\ ops[slot].kind = "sweep"
    /\ failBudget > 0
    /\ failBudget' = failBudget - 1
    /\ disputes' = attemptFailed(disputes, Head(ops[slot].pending), msg, now)
    /\ sweepGoesOn(slot, disputes', Tail(ops[slot].pending), FALSE)
    /\ UNCHANGED << settings, profile, now >>

\* ------------------------------------------ index.ts: POST /disputes/:id/deflect

Deflect(slot, id) ==
    /\ ops[slot] = Idle
    /\ IF id \notin DOMAIN disputes
       THEN ops' = ops /\ out' = Out("deflect", OnlyId(id), 404, FALSE, "dispute_not_found", NoCall)
       ELSE IF ~Truthy(disputes[id].chargeId)
       THEN ops' = ops /\ out' = Out("deflect", OnlyId(id), 400, FALSE, "missing_charge_id", NoCall)
       ELSE IF disputes[id].deflected
       THEN ops' = ops /\ out' = Out("deflect", OnlyId(id), 200, TRUE, "already_deflected", NoCall)
       ELSE /\ ops' = [ ops EXCEPT ![slot] = [ kind |-> "deflect", id |-> id ] ]
            /\ out' = Out("deflect", OnlyId(id), 0, TRUE, "awaiting refund",
                          Call("refunds.create", id, FALSE))
    /\ UNCHANGED << disputes, settings, profile, now, failBudget >>

DeflectRefundOk(slot) ==
    /\ ops[slot].kind = "deflect"
    /\ disputes' = markDeflected(disputes, ops[slot].id, "Proactive refund issued", now)
    /\ ops' = [ ops EXCEPT ![slot] = Idle ]
    /\ out' = Out("deflect_result", OnlyId(ops[slot].id), 200, TRUE, "refunded", NoCall)
    /\ UNCHANGED << settings, profile, now, failBudget >>

DeflectRefundFails(slot) ==
    /\ ops[slot].kind = "deflect"
    /\ failBudget > 0
    /\ failBudget' = failBudget - 1
    /\ ops' = [ ops EXCEPT ![slot] = Idle ]
    /\ out' = Out("deflect_result", OnlyId(ops[slot].id), 500, FALSE, "deflection_failed", NoCall)
    /\ UNCHANGED << disputes, settings, profile, now >>

\* ------------------------------------------- PATCH /disputes/:id/workflow

\* The route hands the body's owner, workflowStatus, nextActionAt and
\* internalNotes (the fields the parameter type of updateDisputeWorkflow
\* admits) to the store and answers 404 when the store has no such record.
UpdateWorkflow(id, patch) ==
    /\ disputes' = updateDisputeWorkflow(disputes, id, patch, now)
    /\ out' = IF id \in DOMAIN disputes
              THEN Out("workflow", OnlyId(id), 200, TRUE, "dispute", NoCall)
              ELSE Out("workflow", OnlyId(id), 404, FALSE, "dispute_not_found", NoCall)
    /\ UNCHANGED << settings, profile, now, ops, failBudget >>

\* ------------------------------------- index.ts: merchant settings, the clock

\* PATCH /api/merchants/m_1/settings
PatchSettings(patch) ==
    /\ settings' = updateMerchantSettings(patch)
    /\ out' = Out("settings", OnlyId(Undef), 200, TRUE, "merchant", NoCall)
    /\ UNCHANGED << disputes, profile, now, ops, failBudget >>

\* PATCH /api/merchants/m_1/evidence-profile
PatchEvidenceProfile(patch) ==
    /\ profile' = updateMerchantEvidenceProfile(patch)
    /\ out' = Out("profile", OnlyId(Undef), 200, TRUE, "merchant", NoCall)
    /\ UNCHANGED << disputes, settings, now, ops, failBudget >>

\* Time passes; MaxTicks bounds the clock.
Tick ==
    /\ now < StartTime + MaxTicks * TickSeconds
    /\ now' = now + TickSeconds
    /\ out' = Out("tick", OnlyId(Undef), 0, TRUE, "tick", NoCall)
    /\ UNCHANGED << disputes, settings, profile, ops, failBudget >>

\* ------------------------------------- evidence.ts: buildEvidencePackage

\* A call of buildEvidencePackage with the EvidenceInput held in the slot;
\* out.input holds the input and, in its field answer, what the call returned.
BuildEvidence(slot) ==
    /\ ops[slot].kind = "evidence"
    /\ ops' = [ ops EXCEPT ![slot] = Idle ]
    /\ out' = Out("evidence", [ id |-> Undef, evidence |-> ops[slot].input,
                                answer |-> buildEvidencePackage(ops[slot].input) ],
                  200, TRUE, "built", NoCall)
    /\ UNCHANGED << disputes, settings, profile, now, failBudget >>

\* ------------------- index.ts: POST /api/merchants/:merchantId/optimize-reasons

DefaultMinCases == 3

DefaultMinWinRatePct == 30

Max(a, b) == IF a >= b THEN a ELSE b

\* Number(x || d): a missing or zero body value gives the default.
OrDefault(x, d) == IF TruthyNum(x) THEN x ELSE d

\* listDisputes(merchantId): the records of the merchant
disputesOf(db, merchantId) == { i \in DOMAIN db : db[i].merchantId = merchantId }

\* getMetrics(merchantId).byReason: per observed reason the number of the
\* merchant's disputes, of those won and of those lost.
byReason(db, merchantId) ==
    LET mine == disputesOf(db, merchantId)
        with(r) == { i \in mine : db[i].reason = r }
    IN  [ r \in { db[i].reason : i \in mine } |->
            [ total |-> Cardinality(with(r)),
              won |-> Cardinality({ i \in with(r) : db[i].status = "won" }),
              lost |-> Cardinality({ i \in with(r) : db[i].status = "lost" }) ] ]

\* Mutant: a reason is risky on its win rate alone, however few its cases.
riskyReasons_anyCases(by, minCases, minWinRatePct) ==
    { r \in DOMAIN by : by[r].won * 100 < minWinRatePct * Max(1, by[r].total) }

\* Lines 460-463; (won / max(1, total)) * 100 < minWinRatePct on integers.
riskyReasons(by, minCases, minWinRatePct) ==
    { r \in DOMAIN by :
        /\ by[r].total >= minCases
        /\ by[r].won * 100 < minWinRatePct * Max(1, by[r].total) }

nextAllowed(by, risky) == DOMAIN by \ risky

\* Mutant: the computed list is written even when it is empty.
fallbackToCurrent_never(next, current) == next

fallbackToCurrent(next, current) == IF next = {} THEN current ELSE next

\* The route runs to its answer without an await.  out.input holds the
\* request (merchantId and the body's minCases and minWinRatePct, NoTime for
\* a missing one) and, in its field answer, the fields of the response.
OptimizeReasons(merchantId, minCasesIn, minWinRatePctIn) ==
    LET request == [ id |-> Undef, merchantId |-> merchantId,
                     minCases |-> minCasesIn, minWinRatePct |-> minWinRatePctIn ]
    IN  /\ IF merchantId # "m_1"
           THEN /\ settings' = settings
                /\ out' = Out("optimize", request, 404, FALSE, "merchant_not_found", NoCall)
           ELSE LET minCases == OrDefault(minCasesIn, DefaultMinCases)
                    minWinRatePct == OrDefault(minWinRatePctIn, DefaultMinWinRatePct)
                    by == byReason(disputes, merchantId)
                    risky == riskyReasons(by, minCases, minWinRatePct)
                    next == nextAllowed(by, risky)
                    written == fallbackToCurrent(next, settings.autoSubmitReasons)
                    answer == [ minCases |-> minCases, minWinRatePct |-> minWinRatePct,
                                riskyReasons |-> risky, autoSubmitReasons |-> written ]
                IN  /\ settings' = updateMerchantSettings([ autoSubmitReasons |-> written ])
                    /\ out' = Out("optimize", request @@ [ answer |-> answer ], 200, TRUE,
                                  IF next = {} THEN "kept current auto-submit list"
                                  ELSE "auto-submit reasons updated", NoCall)
        /\ UNCHANGED << disputes, profile, now, ops, failBudget >>

\* ------------------------------------------- index.ts: GET /api/disputes/queue

\* Lines 611-627: one dispute of the queue with its readiness
queueEntry(db, id) ==
    [ id |-> id, merchantId |-> db[id].merchantId, reason |-> db[id].reason,
      status |-> db[id].status, amount |-> db[id].amount, dueBy |-> db[id].dueBy,
      evidenceScore |-> db[id].evidenceScore, submitted |-> db[id].submitted,
      deflected |-> db[id].deflected, readiness |-> getSubmissionReadiness(db, id) ]

WithoutIndex(seq, i) == SubSeq(seq, 1, i - 1) \o SubSeq(seq, i + 1, Len(seq))

\* Mutant: the queue is left in the order of the listing.
sortByPriority_unsorted(entries) == entries

RECURSIVE sortByPriority(_)
\* .sort((a, b) => b.readiness.priority - a.readiness.priority): the sort is
\* stable, entries of equal priority keep the order of the listing.
sortByPriority(entries) ==
    IF entries = << >> THEN << >>
    ELSE LET first == CHOOSE i \in 1..Len(entries) :
                        \A j \in 1..Len(entries) :
                            \/ entries[j].readiness.priority < entries[i].readiness.priority
                            \/ /\ entries[j].readiness.priority = entries[i].readiness.priority
                               /\ j >= i
         IN  << entries[first] >> \o sortByPriority(WithoutIndex(entries, first))

\* Lines 630-639; a count is queue.filter(...).length
queueSummary(queue, t) ==
    LET entries == 1..Len(queue)
        withReason(r) == Cardinality({ k \in entries : queue[k].readiness.reason = r })
    IN  [ totalOpen |-> Len(queue),
          ready |-> Cardinality({ k \in entries : queue[k].readiness.ready }),
          manualReview |-> withReason("manual_review_required"),
          delayWindow |-> withReason("submission_delay_window_active"),
          blockedByScore |-> withReason("score_below_threshold"),
          blockedByReason |-> withReason("reason_not_allowed"),
          overdue |-> Cardinality({ k \in entries :
                                      TruthyNum(queue[k].dueBy) /\ queue[k].dueBy < t }),
          dueIn48h |-> Cardinality({ k \in entries :
                                       /\ TruthyNum(queue[k].dueBy) /\ queue[k].dueBy > t
                                       /\ queue[k].dueBy - t <= 48 * 60 * 60 }) ]

\* The route runs to its answer without an await.  merchantId is the query
\* parameter (Undef for a request without one), order the listing
\* listDisputes returned; out.input holds the request and, in its field
\* answer, the response.
Queue(merchantId, order) ==
    LET mine == IF Truthy(merchantId) THEN disputesOf(disputes, merchantId) ELSE DOMAIN disputes
        open == SelectSeq(order, LAMBDA i : ~Closed(disputes[i].status))
        queue == sortByPriority([ k \in 1..Len(open) |-> queueEntry(disputes, open[k]) ])
        request == [ id |-> Undef, merchantId |-> merchantId ]
    IN  /\ IsListing(order, disputes, mine)
        /\ out' = Out("queue", request @@ [ answer |-> [ summary |-> queueSummary(queue, now),
                                                          queue |-> queue ] ],
                      200, TRUE, "queue", NoCall)
        /\ UNCHANGED << disputes, settings, profile, now, ops, failBudget >>

\* ------------------------------------------------------------ the inputs

UpsertTypes == {"charge.dispute.created", "charge.dispute.updated"}

Disputes(ids, charges, reasons, amounts, statuses, dueBys, createds) ==
    [ id : ids, charge : charges, reason : reasons, amount : amounts, status : statuses,
      dueBy : dueBys, created : createds ]

Events(types, accounts, ds) == [ type : types, account : accounts, dispute : ds ]

\* The charges the processor holds: ch_1 with billing details, ch_2 without.
Charges ==
    [ c \in {"ch_1", "ch_2"} |->
        IF c = "ch_1"
        THEN [ email |-> "pat@example.com", name |-> "Pat", descriptor |-> << "A", "B", "c" >> ]
        ELSE [ email |-> "", name |-> "", descriptor |-> << "x" >> ] ]

ErrorMessages == {"No such dispute"}

Orders(ids) == UNION { [ 1..n -> ids ] : n \in 0..Cardinality(ids) }

\* ------------------------------------------------------ the specification

InitWith(slots, failures, s0, p0) ==
    /\ disputes = [ i \in {} |-> BlankRecord ]
    /\ settings = s0
    /\ profile = p0
    /\ now = StartTime
    /\ ops = [ s \in slots |-> Idle ]
    /\ failBudget = failures
    /\ out = Out("start", OnlyId(Undef), 0, TRUE, "start", NoCall)

\* Reconciliation of one dispute: events that differ in status and creation
\* time, retries, sweeps and deflections, the merchant switching auto-submit
\* on (with a threshold its evidence reaches) and off.
Init == InitWith({"s1"}, MaxFailures, defaultMerchantSettings, defaultEvidenceProfile)

MainDisputes ==
    Disputes({"dp_1"}, {"ch_1"}, {"fraudulent"}, {5000, 250000}, {"needs_response", "won"},
             {NoTime}, {StartTime, StartTime - TickSeconds})

MainPatches ==
    { [ autoSubmitEnabled |-> TRUE, minEvidenceScore |-> 60 ],
      [ autoSubmitEnabled |-> FALSE ] }

Next ==
    \/ \E slot \in DOMAIN ops, ev \in Events(UpsertTypes, {"acct_1"}, MainDisputes) :
          WebhookReceive(slot, ev)
    \/ \E slot \in DOMAIN ops : WebhookChargeOk(slot, Charges)
    \/ \E slot \in DOMAIN ops : WebhookCallFails(slot)
    \/ \E slot \in DOMAIN ops : WebhookUpdateOk(slot)
    \/ \E ev \in Events({"charge.dispute.closed"}, {"acct_1"}, MainDisputes) : WebhookClosed(ev)
    \/ \E slot \in DOMAIN ops, id \in {"dp_1", "dp_2"} : RetrySubmit(slot, id)
    \/ \E slot \in DOMAIN ops : RetryUpdateOk(slot)
    \/ \E slot \in DOMAIN ops, msg \in ErrorMessages : RetryUpdateFails(slot, msg)
    \/ \E slot \in DOMAIN ops, order \in Orders(DOMAIN disputes) : SweepStart(slot, order)
    \/ \E slot \in DOMAIN ops : SweepUpdateOk(slot)
    \/ \E slot \in DOMAIN ops, msg \in ErrorMessages : SweepUpdateFails(slot, msg)
    \/ \E slot \in DOMAIN ops, id \in {"dp_1", "dp_2"} : Deflect(slot, id)
    \/ \E slot \in DOMAIN ops : DeflectRefundOk(slot)
    \/ \E slot \in DOMAIN ops : DeflectRefundFails(slot)
    \/ \E patch \in MainPatches : PatchSettings(patch)

Spec == Init /\ [][Next]_vars

\* A dispute whose retries keep failing at the processor: the merchant has
\* auto-submit off when the event arrives and switches it on afterwards, and
\* the processor may refuse more calls than the attempt list holds.
InitCap == InitWith({"s1"}, AttemptCap + MaxFailures, defaultMerchantSettings,
                    defaultEvidenceProfile)

CapDisputes ==
    Disputes({"dp_1"}, {"ch_1"}, {"fraudulent"}, {5000}, {"needs_response"},
             {NoTime}, {StartTime})

NextCap ==
    \/ \E slot \in DOMAIN ops, ev \in Events(UpsertTypes, {"acct_1"}, CapDisputes) :
          WebhookReceive(slot, ev)
    \/ \E slot \in DOMAIN ops : WebhookChargeOk(slot, Charges)
    \/ \E slot \in DOMAIN ops : WebhookUpdateOk(slot)
    \/ \E slot \in DOMAIN ops : RetrySubmit(slot, "dp_1")
    \/ \E slot \in DOMAIN ops : RetryUpdateOk(slot)
    \/ \E slot \in DOMAIN ops, msg \in ErrorMessages : RetryUpdateFails(slot, msg)
    \/ \E patch \in MainPatches : PatchSettings(patch)

SpecCap == InitCap /\ [][NextCap]_vars

\* The submission decision under every combination of its gates.  The merchant
\* policy and the evidence profile are fixed at the start of a behaviour and
\* differ between behaviours; the clock advances, events are delivered again
\* and retried.
DecideSettings ==
    { [ defaultMerchantSettings EXCEPT
          !.autoSubmitEnabled = e, !.autoSubmitReasons = rs,
          !.manualReviewAmountThreshold = th, !.submissionDelayMinutes = dl ] :
        e \in BOOLEAN, rs \in { {}, {"fraudulent"}, {"duplicate"} },
        th \in {200000, 5000}, dl \in {0, 1} }

DecideProfiles ==
    { defaultEvidenceProfile,
      [ defaultEvidenceProfile EXCEPT
          !.termsUrl = "https://m.example/terms",
          !.refundPolicyUrl = "https://m.example/refunds",
          !.cancellationPolicyUrl = "https://m.example/cancel" ] }

InitDecide ==
    \E s0 \in DecideSettings, p0 \in DecideProfiles : InitWith({"s1"}, MaxFailures, s0, p0)

DecideDisputes ==
    Disputes({"dp_1"}, {"ch_1", Undef}, {"fraudulent"}, {5000}, {"needs_response", "won"},
             {NoTime}, {StartTime})

NextDecide ==
    \/ \E slot \in DOMAIN ops, ev \in Events({"charge.dispute.updated"}, {"acct_1"}, DecideDisputes) :
          WebhookReceive(slot, ev)
    \/ \E slot \in DOMAIN ops : WebhookChargeOk(slot, Charges)
    \/ \E slot \in DOMAIN ops : WebhookUpdateOk(slot)
    \/ \E slot \in DOMAIN ops, id \in {"dp_1", "dp_2"} : RetrySubmit(slot, id)
    \/ \E slot \in DOMAIN ops : RetryUpdateOk(slot)
    \/ Tick

SpecDecide == InitDecide /\ [][NextDecide]_vars

\* Sweeps over several open disputes: events of three disputes arrive while
\* auto-submit is off, the merchant switches it on, and the processor may
\* refuse a call of a sweep.
SweepIds == {"dp_1", "dp_2", "dp_3"}

InitSweep == InitWith({"s1"}, MaxFailures, defaultMerchantSettings, defaultEvidenceProfile)

SweepDisputes ==
    Disputes(SweepIds, {"ch_1"}, {"fraudulent"}, {5000}, {"needs_response"},
             {NoTime}, {StartTime})

NextSweep ==
    \/ \E slot \in DOMAIN ops, ev \in Events({"charge.dispute.created"}, {"acct_1"}, SweepDisputes) :
          WebhookReceive(slot, ev)
    \/ \E slot \in DOMAIN ops : WebhookChargeOk(slot, Charges)
    \/ \E slot \in DOMAIN ops : WebhookUpdateOk(slot)
    \/ \E slot \in DOMAIN ops, order \in Orders(DOMAIN disputes) : SweepStart(slot, order)
    \/ \E slot \in DOMAIN ops : SweepUpdateOk(slot)
    \/ \E slot \in DOMAIN ops, msg \in ErrorMessages : SweepUpdateFails(slot, msg)
    \/ \E patch \in MainPatches : PatchSettings(patch)

SpecSweep == InitSweep /\ [][NextSweep]_vars

\* Deflection of a dispute whose events arrive with and without a charge id
\* and that the processor closes, the merchant switching auto-submit on and
\* retrying.
InitDeflect == InitWith({"s1"}, MaxFailures, defaultMerchantSettings, defaultEvidenceProfile)

DeflectDisputes ==
    Disputes({"dp_1"}, {"ch_1", Undef}, {"fraudulent"}, {5000}, {"needs_response"},
             {NoTime}, {StartTime})

DeflectClosings ==
    Disputes({"dp_1"}, {"ch_1", Undef}, {"fraudulent"}, {5000}, {"won", "lost"},
             {NoTime}, {StartTime})

NextDeflect ==
    \/ \E slot \in DOMAIN ops, ev \in Events({"charge.dispute.updated"}, {"acct_1"}, DeflectDisputes) :
          WebhookReceive(slot, ev)
    \/ \E slot \in DOMAIN ops : WebhookChargeOk(slot, Charges)
    \/ \E slot \in DOMAIN ops : WebhookUpdateOk(slot)
    \/ \E ev \in Events({"charge.dispute.closed"}, {"acct_1"}, DeflectClosings) : WebhookClosed(ev)
    \/ \E slot \in DOMAIN ops, id \in {"dp_1", "dp_2"} : Deflect(slot, id)
    \/ \E slot \in DOMAIN ops : DeflectRefundOk(slot)
    \/ \E slot \in DOMAIN ops : DeflectRefundFails(slot)
    \/ \E slot \in DOMAIN ops : RetrySubmit(slot, "dp_1")
    \/ \E slot \in DOMAIN ops : RetryUpdateOk(slot)
    \/ \E patch \in MainPatches : PatchSettings(patch)

SpecDeflect == InitDeflect /\ [][NextDeflect]_vars

\* The optimizer over a merchant's history: three disputes with the reason
\* fraudulent and one with the reason duplicate are reported and closed, the
\* fraudulent ones won or still open, the duplicate one won or lost.
ReasonOf(id) == IF id = "dp_4" THEN "duplicate" ELSE "fraudulent"

OptimizeDisputes(statuses) ==
    { d \in Disputes({"dp_1", "dp_2", "dp_3", "dp_4"}, {Undef}, {"fraudulent", "duplicate"},
                     {5000}, statuses, {NoTime}, {StartTime}) :
        /\ d.reason = ReasonOf(d.id)
        /\ d.status = "lost" => d.id = "dp_4" }

\* The bodies of the optimize requests, << minCases, minWinRatePct >>
OptimizeBodies == { << NoTime, NoTime >>, << 0, 50 >>, << 1, 50 >>, << 1, 0 >> }

InitOptimize == InitWith({"s1"}, MaxFailures, defaultMerchantSettings, defaultEvidenceProfile)

NextOptimize ==
    \/ \E slot \in DOMAIN ops,
          ev \in Events({"charge.dispute.created"}, {"acct_1"}, OptimizeDisputes({"needs_response"})) :
          WebhookReceive(slot, ev)
    \/ \E slot \in DOMAIN ops : WebhookUpdateOk(slot)
    \/ \E ev \in Events({"charge.dispute.closed"}, {"acct_1"}, OptimizeDisputes({"won", "lost"})) :
          WebhookClosed(ev)
    \/ \E merchantId \in {"m_1", "m_2"}, body \in OptimizeBodies :
          OptimizeReasons(merchantId, body[1], body[2])

SpecOptimize == InitOptimize /\ [][NextOptimize]_vars

\* Events of a connected account and of an account no merchant is stored for.
InitMerchant == InitWith({"s1"}, MaxFailures, defaultMerchantSettings, defaultEvidenceProfile)

MerchantDisputes ==
    Disputes({"dp_1", "dp_2"}, {"ch_1"}, {"fraudulent"}, {5000}, {"needs_response"},
             {NoTime}, {StartTime})

NextMerchant ==
    \/ \E slot \in DOMAIN ops,
          ev \in Events({"charge.dispute.created"}, {"acct_1", "acct_2"}, MerchantDisputes) :
          WebhookReceive(slot, ev)
    \/ \E slot \in DOMAIN ops : WebhookChargeOk(slot, Charges)
    \/ \E slot \in DOMAIN ops : WebhookUpdateOk(slot)
    \/ \E slot \in DOMAIN ops, id \in {"dp_1", "dp_2"} : RetrySubmit(slot, id)
    \/ \E slot \in DOMAIN ops : RetryUpdateOk(slot)
    \/ \E patch \in MainPatches : PatchSettings(patch)

SpecMerchant == InitMerchant /\ [][NextMerchant]_vars

\* The priority of a ready dispute: events of one dispute with due dates
\* around the clock's hour marks and amounts around the rounding and the cap
\* of the amount urgency arrive, the merchant switches auto-submit on and off
\* and looks at the queue.
PriorityDueBys ==
    { NoTime, StartTime - 1, StartTime,
      StartTime + 4 * 60 * 60, StartTime + 4 * 60 * 60 + 1,
      StartTime + 24 * 60 * 60, StartTime + 24 * 60 * 60 + 1,
      StartTime + 48 * 60 * 60, StartTime + 48 * 60 * 60 + 1,
      StartTime + 72 * 60 * 60 }

PriorityAmounts == { 2499, 2500, 125000, 150000 }

PriorityDisputes ==
    Disputes({"dp_1"}, {"ch_1"}, {"fraudulent"}, PriorityAmounts, {"needs_response"},
             PriorityDueBys, {StartTime})

InitPriority == InitWith({"s1"}, MaxFailures, defaultMerchantSettings, defaultEvidenceProfile)

NextPriority ==
    \/ \E slot \in DOMAIN ops,
          ev \in Events({"charge.dispute.created"}, {"acct_1"}, PriorityDisputes) :
          WebhookReceive(slot, ev)
    \/ \E slot \in DOMAIN ops : WebhookChargeOk(slot, Charges)
    \/ \E slot \in DOMAIN ops : WebhookUpdateOk(slot)
    \/ \E patch \in MainPatches : PatchSettings(patch)
    \/ \E merchantId \in {Undef, "m_1"}, order \in Orders(DOMAIN disputes) :
          Queue(merchantId, order)

SpecPriority == InitPriority /\ [][NextPriority]_vars

\* The order of two ready disputes: events of two disputes with due dates in
\* each band, dp_1 of a small amount and due no later than 48 hours from the
\* start, dp_2 of a small or a large amount and not overdue at the start.
RankDueBys ==
    { StartTime - 1, StartTime + 4 * 60 * 60, StartTime + 24 * 60 * 60,
      StartTime + 48 * 60 * 60, StartTime + 72 * 60 * 60 }

RankAmounts == { 2499, 125000 }

RankDisputes ==
    { d \in Disputes({"dp_1", "dp_2"}, {"ch_1"}, {"fraudulent"}, RankAmounts,
                     {"needs_response"}, RankDueBys, {StartTime}) :
        IF d.id = "dp_1" THEN d.amount = 2499 /\ d.dueBy # StartTime + 72 * 60 * 60
        ELSE d.dueBy # StartTime - 1 }

InitRank == InitWith({"s1"}, MaxFailures, defaultMerchantSettings, defaultEvidenceProfile)

NextRank ==
    \/ \E slot \in DOMAIN ops,
          ev \in Events({"charge.dispute.created"}, {"acct_1"}, RankDisputes) :
          WebhookReceive(slot, ev)
    \/ \E slot \in DOMAIN ops : WebhookChargeOk(slot, Charges)
    \/ \E slot \in DOMAIN ops : WebhookUpdateOk(slot)
    \/ \E patch \in MainPatches : PatchSettings(patch)
    \/ \E order \in Orders(DOMAIN disputes) : Queue("m_1", order)

SpecRank == InitRank /\ [][NextRank]_vars

\* The queue of a merchant who starts with auto-submit off and writes one of
\* three policies with auto-submit on (an allow-list without the reason
\* fraudulent; a score threshold the evidence does not reach; a delay window
\* and a low manual review threshold): events of a fraudulent and of a
\* duplicate dispute arrive, the second one also from an account no merchant
\* is stored for, the processor closes them, and the queue is asked for with
\* and without a merchant id.
QueuePatches ==
    { [ autoSubmitEnabled |-> TRUE, autoSubmitReasons |-> {"duplicate"}, minEvidenceScore |-> 60,
        manualReviewAmountThreshold |-> 200000, submissionDelayMinutes |-> 0 ],
      [ autoSubmitEnabled |-> TRUE, autoSubmitReasons |-> {}, minEvidenceScore |-> 70,
        manualReviewAmountThreshold |-> 200000, submissionDelayMinutes |-> 0 ],
      [ autoSubmitEnabled |-> TRUE, autoSubmitReasons |-> {}, minEvidenceScore |-> 60,
        manualReviewAmountThreshold |-> 5000, submissionDelayMinutes |-> 1 ] }

InitQueue == InitWith({"s1"}, MaxFailures, defaultMerchantSettings, defaultEvidenceProfile)

QueueEvents(types, statuses) ==
    { ev \in Events(types, {"acct_1", "acct_2"},
                    Disputes({"dp_1", "dp_2"}, {"ch_1"}, {"fraudulent", "duplicate"},
                             {2499, 5000}, statuses, {NoTime}, {StartTime})) :
        IF ev.dispute.id = "dp_1"
        THEN ev.dispute.reason = "fraudulent" /\ ev.account = "acct_1"
        ELSE ev.dispute.reason = "duplicate" /\ ev.dispute.amount = 2499 }

NextQueue ==
    \/ \E slot \in DOMAIN ops,
          ev \in QueueEvents({"charge.dispute.created"}, {"needs_response"}) :
          WebhookReceive(slot, ev)
    \/ \E slot \in DOMAIN ops : WebhookChargeOk(slot, Charges)
    \/ \E slot \in DOMAIN ops : WebhookUpdateOk(slot)
    \/ \E ev \in QueueEvents({"charge.dispute.closed"}, {"won", "lost"}) : WebhookClosed(ev)
    \/ \E patch \in QueuePatches : PatchSettings(patch)
    \/ \E merchantId \in {Undef, "m_1"}, order \in Orders(DOMAIN disputes) :
          Queue(merchantId, order)

SpecQueue == InitQueue /\ [][NextQueue]_vars

\* The evidence scorer over its inputs: every field of an EvidenceInput that
\* the scorer looks at is missing, the empty string or a text.
EvidenceTexts == {Undef, "", "x"}

EvidenceInputs ==
    [ reason : {"fraudulent"}, customerName : EvidenceTexts, customerEmail : EvidenceTexts,
      productDescription : EvidenceTexts, supportInteraction : EvidenceTexts,
      termsUrl : EvidenceTexts, refundPolicyUrl : EvidenceTexts,
      cancellationPolicyUrl : EvidenceTexts, accessLog : EvidenceTexts,
      shippingTrackingNumber : EvidenceTexts ]

InitScore ==
    /\ disputes = [ i \in {} |-> BlankRecord ]
    /\ settings = defaultMerchantSettings
    /\ profile = defaultEvidenceProfile
    /\ now = StartTime
    /\ \E i \in EvidenceInputs : ops = [ s \in {"s1"} |-> [ kind |-> "evidence", input |-> i ] ]
    /\ failBudget = MaxFailures
    /\ out = Out("start", OnlyId(Undef), 0, TRUE, "start", NoCall)

NextScore == \E slot \in DOMAIN ops : BuildEvidence(slot)

SpecScore == InitScore /\ [][NextScore]_vars

\* Two requests in flight on one dispute: while the handler of an event is
\* suspended at a processor call, a retry, a deflection or the handler of a
\* closed event runs in the other request.
InitRace == InitWith({"s1", "s2"}, 0, defaultMerchantSettings, defaultEvidenceProfile)

RaceDisputes(statuses) ==
    Disputes({"dp_1"}, {"ch_1"}, {"fraudulent"}, {5000}, statuses, {NoTime}, {StartTime})

RacePatches == { [ autoSubmitEnabled |-> TRUE, minEvidenceScore |-> 60 ] }

NextRace ==
    \/ \E slot \in DOMAIN ops,
          ev \in Events({"charge.dispute.updated"}, {"acct_1"}, RaceDisputes({"needs_response"})) :
          WebhookReceive(slot, ev)
    \/ \E slot \in DOMAIN ops : WebhookChargeOk(slot, Charges)
    \/ \E slot \in DOMAIN ops : WebhookUpdateOk(slot)
    \/ \E ev \in Events({"charge.dispute.closed"}, {"acct_1"}, RaceDisputes({"won"})) :
          WebhookClosed(ev)
    \/ \E slot \in DOMAIN ops : RetrySubmit(slot, "dp_1")
    \/ \E slot \in DOMAIN ops : RetryUpdateOk(slot)
    \/ \E slot \in DOMAIN ops : Deflect(slot, "dp_1")
    \/ \E slot \in DOMAIN ops : DeflectRefundOk(slot)
    \/ \E patch \in RacePatches : PatchSettings(patch)

SpecRace == InitRace /\ [][NextRace]_vars

\* Sweeps that run to their end: two requests in flight, events of two
\* disputes, retries, the merchant switching auto-submit on, and sweeps
\* started while another sweep, a retry or the handler of an event is
\* suspended.  The processor answers every call of a sweep in the end, with
\* success or with a failure: the answer of a suspended sweep is taken under
\* weak fairness.
SweepFairIds == {"dp_1", "dp_2"}

InitSweepFair == InitWith({"s1", "s2"}, MaxFailures, defaultMerchantSettings,
                          defaultEvidenceProfile)

SweepFairDisputes ==
    Disputes(SweepFairIds, {"ch_1"}, {"fraudulent"}, {5000}, {"needs_response"},
             {NoTime}, {StartTime})

SweepFairPatches == { [ autoSubmitEnabled |-> TRUE, minEvidenceScore |-> 60 ] }

SweepAnswer(slot) ==
    \/ SweepUpdateOk(slot)
    \/ \E msg \in ErrorMessages : SweepUpdateFails(slot, msg)

NextSweepFair ==
    \/ \E slot \in DOMAIN ops,
          ev \in Events({"charge.dispute.created"}, {"acct_1"}, SweepFairDisputes) :
          WebhookReceive(slot, ev)
    \/ \E slot \in DOMAIN ops : WebhookChargeOk(slot, Charges)
    \/ \E slot \in DOMAIN ops : WebhookUpdateOk(slot)
    \/ \E slot \in DOMAIN ops, id \in SweepFairIds : RetrySubmit(slot, id)
    \/ \E slot \in DOMAIN ops : RetryUpdateOk(slot)
    \/ \E slot \in DOMAIN ops, order \in Orders(DOMAIN disputes) : SweepStart(slot, order)
    \/ \E slot \in DOMAIN ops : SweepAnswer(slot)
    \/ \E patch \in SweepFairPatches : PatchSettings(patch)

SpecSweepFair ==
    /\ InitSweepFair
    /\ [][NextSweepFair]_vars
    /\ \A slot \in {"s1", "s2"} : WF_vars(SweepAnswer(slot))

\* The manual review threshold changed after a dispute was reconciled: events
\* of one dispute arrive, the merchant switches auto-submit on, lowers and
\* raises the threshold, and retries and sweeps run.
InitReview == InitWith({"s1"}, MaxFailures, defaultMerchantSettings, defaultEvidenceProfile)

ReviewDisputes ==
    Disputes({"dp_1"}, {"ch_1"}, {"fraudulent"}, {5000}, {"needs_response"}, {NoTime},
             {StartTime})

ReviewPatches ==
    { [ autoSubmitEnabled |-> TRUE, minEvidenceScore |-> 60 ],
      [ manualReviewAmountThreshold |-> 5000 ],
      [ manualReviewAmountThreshold |-> 200000 ] }

NextReview ==
    \/ \E slot \in DOMAIN ops,
          ev \in Events({"charge.dispute.created"}, {"acct_1"}, ReviewDisputes) :
          WebhookReceive(slot, ev)
    \/ \E slot \in DOMAIN ops : WebhookChargeOk(slot, Charges)
    \/ \E slot \in DOMAIN ops : WebhookUpdateOk(slot)
    \/ \E slot \in DOMAIN ops : RetrySubmit(slot, "dp_1")
    \/ \E slot \in DOMAIN ops : RetryUpdateOk(slot)
    \/ \E slot \in DOMAIN ops, msg \in ErrorMessages : RetryUpdateFails(slot, msg)
    \/ \E slot \in DOMAIN ops, order \in Orders(DOMAIN disputes) : SweepStart(slot, order)
    \/ \E slot \in DOMAIN ops : SweepAnswer(slot)
    \/ \E patch \in ReviewPatches : PatchSettings(patch)

SpecReview == InitReview /\ [][NextReview]_vars

\* The optimizer over an allow-list the merchant wrote: one fraudulent and
\* one duplicate dispute are reported and closed, the merchant sets the
\* allow-list and the optimizer runs.
AllowListPatches ==
    { [ autoSubmitReasons |-> {"fraudulent", "duplicate"} ],
      [ autoSubmitReasons |-> {"duplicate"} ] }

AllowListDisputes(statuses) == { d \in OptimizeDisputes(statuses) : d.id \in {"dp_1", "dp_4"} }

InitAllowList == InitWith({"s1"}, MaxFailures, defaultMerchantSettings, defaultEvidenceProfile)

NextAllowList ==
    \/ \E slot \in DOMAIN ops,
          ev \in Events({"charge.dispute.created"}, {"acct_1"}, AllowListDisputes({"needs_response"})) :
          WebhookReceive(slot, ev)
    \/ \E slot \in DOMAIN ops : WebhookUpdateOk(slot)
    \/ \E ev \in Events({"charge.dispute.closed"}, {"acct_1"}, AllowListDisputes({"won", "lost"})) :
          WebhookClosed(ev)
    \/ \E patch \in AllowListPatches : PatchSettings(patch)
    \/ \E merchantId \in {"m_1", "m_2"}, body \in OptimizeBodies :
          OptimizeReasons(merchantId, body[1], body[2])

SpecAllowList == InitAllowList /\ [][NextAllowList]_vars

\* Triage next to the automation: the events of one dispute are reconciled,
\* it is retried, swept, deflected and closed, and an operator assigns the
\* triage fields.
WorkflowPatches ==
    { [ owner |-> "alice" ],
      [ workflowStatus |-> "in_progress", nextActionAt |-> "tomorrow",
        internalNotes |-> "called the customer" ] }

WorkflowDisputes(statuses) ==
    Disputes({"dp_1"}, {"ch_1"}, {"fraudulent"}, {5000}, statuses, {NoTime}, {StartTime})

InitWorkflow == InitWith({"s1"}, MaxFailures, defaultMerchantSettings, defaultEvidenceProfile)

NextWorkflow ==
    \/ \E slot \in DOMAIN ops,
          ev \in Events(UpsertTypes, {"acct_1"}, WorkflowDisputes({"needs_response"})) :
          WebhookReceive(slot, ev)
    \/ \E slot \in DOMAIN ops : WebhookChargeOk(slot, Charges)
    \/ \E slot \in DOMAIN ops : WebhookUpdateOk(slot)
    \/ \E ev \in Events({"charge.dispute.closed"}, {"acct_1"}, WorkflowDisputes({"won", "lost"})) :
          WebhookClosed(ev)
    \/ \E slot \in DOMAIN ops : RetrySubmit(slot, "dp_1")
    \/ \E slot \in DOMAIN ops : RetryUpdateOk(slot)
    \/ \E slot \in DOMAIN ops, msg \in ErrorMessages : RetryUpdateFails(slot, msg)
    \/ \E slot \in DOMAIN ops, order \in Orders(DOMAIN disputes) : SweepStart(slot, order)
    \/ \E slot \in DOMAIN ops : SweepAnswer(slot)
    \/ \E slot \in DOMAIN ops : Deflect(slot, "dp_1")
    \/ \E slot \in DOMAIN ops : DeflectRefundOk(slot)
    \/ \E slot \in DOMAIN ops : DeflectRefundFails(slot)
    \/ \E id \in {"dp_1", "dp_2"}, patch \in WorkflowPatches : UpdateWorkflow(id, patch)
    \/ \E patch \in RacePatches : PatchSettings(patch)

SpecWorkflow == InitWorkflow /\ [][NextWorkflow]_vars

\* The periodic sweep (AUTO_RETRY_ENABLED): the interval runs its sweeps in the
\* request s2 while events of a dispute, retries and the merchant's patches
\* (auto-submit switched on, a delay window of one minute) are handled in the
\* request s1.  The interval fires again and again, the processor answers
\* every call of a sweep in the end and time passes: the start of a sweep,
\* the answer to a suspended sweep and the clock are taken under weak
\* fairness.  The processor fails at most MaxFailures calls.
InitPeriodic == InitWith({"s1", "s2"}, MaxFailures, defaultMerchantSettings,
                         defaultEvidenceProfile)

PeriodicDisputes ==
    Disputes({"dp_1"}, {"ch_1"}, {"fraudulent"}, {5000}, {"needs_response"}, {NoTime},
             {StartTime})

PeriodicPatches ==
    { [ autoSubmitEnabled |-> TRUE, minEvidenceScore |-> 60 ],
      [ submissionDelayMinutes |-> 1 ] }

IntervalFires == \E order \in Orders(DOMAIN disputes) : SweepStart("s2", order)

NextPeriodic ==
    \/ \E ev \in Events({"charge.dispute.created"}, {"acct_1"}, PeriodicDisputes) :
          WebhookReceive("s1", ev)
    \/ WebhookChargeOk("s1", Charges)
    \/ WebhookUpdateOk("s1")
    \/ RetrySubmit("s1", "dp_1")
    \/ RetryUpdateOk("s1")
    \/ \E msg \in ErrorMessages : RetryUpdateFails("s1", msg)
    \/ IntervalFires
    \/ SweepAnswer("s2")
    \/ \E patch \in PeriodicPatches : PatchSettings(patch)
    \/ Tick

SpecPeriodic ==
    /\ InitPeriodic
    /\ [][NextPeriodic]_vars
    /\ WF_vars(IntervalFires)
    /\ WF_vars(SweepAnswer("s2"))
    /\ WF_vars(Tick)

\* ---------------------------------------------------------------- claims

\* The step that ends a created/updated reconciliation with the record stored
UpsertStored == out.op = "webhook" /\ out.status = 200

ClosedStored == out.op = "webhook_closed" /\ out.status = 200

Reconciled == UpsertStored \/ ClosedStored

\* C1: once a stored record has submitted = true, no later operation stores
\* submitted = false for that id.
C1_SubmittedMonotonic ==
    [][ \A id \in DOMAIN disputes : disputes[id].submitted => disputes'[id].submitted ]_vars

\* C2: once a record has its creation time set, every created, updated or
\* closed reconciliation leaves it equal to the first-seen value, whatever
\* creation time the later event carries.
C2_CreatedAtWriteOnce ==
    [][ \A id \in DOMAIN disputes :
          (Reconciled' /\ disputes[id].disputeCreatedAt # NoTime)
            => disputes'[id].disputeCreatedAt = disputes[id].disputeCreatedAt ]_vars

\* C2 witness: a reconciliation has stored an event whose creation time is
\* not the one the record keeps.
C2_Witness ==
    /\ Reconciled
    /\ out.id \in DOMAIN disputes
    /\ disputes[out.id].disputeCreatedAt # NoTime
    /\ disputes[out.id].disputeCreatedAt # out.input.created

\* C3: once a record has deflected = true, every created, updated or closed
\* reconciliation leaves deflected, deflectionReason and deflectedAt as they
\* were.
C3_DeflectionSticky ==
    [][ \A id \in DOMAIN disputes :
          (Reconciled' /\ disputes[id].deflected)
            => /\ disputes'[id].deflected
               /\ disputes'[id].deflectionReason = disputes[id].deflectionReason
               /\ disputes'[id].deflectedAt = disputes[id].deflectedAt ]_vars

\* C3 witness: a created/updated reconciliation has rewritten the record of
\* a deflected dispute.
C3_Witness ==
    /\ UpsertStored
    /\ out.id \in DOMAIN disputes
    /\ disputes[out.id].deflected
    /\ disputes[out.id].deflectionReason # Undef
    /\ disputes[out.id].deflectedAt # NoTime

IsSuffix(s, t) == Len(s) <= Len(t) /\ s = SubSeq(t, Len(t) - Len(s) + 1, Len(t))

\* new is old with entries appended at the end, entries dropped from the
\* oldest end only, and only to keep the cap.
AppendedOnly(old, new) ==
    \E added \in 0..Len(new) :
        LET kept == SubSeq(new, 1, Len(new) - added)
        IN  /\ IsSuffix(kept, old)
            /\ (kept # old => Len(new) = AttemptCap)

\* C4: submissionAttempts is append-only: every operation only appends at the
\* end (dropping from the oldest end at the cap), and each created/updated
\* reconciliation appends one new Attempt to the existing history.
C4_AttemptsAppendOnly ==
    [][ \A id \in DOMAIN disputes :
          /\ AppendedOnly(disputes[id].submissionAttempts, disputes'[id].submissionAttempts)
          /\ (UpsertStored' /\ out'.id = id)
               => Len(disputes'[id].submissionAttempts)
                    = Min(AttemptCap, Len(disputes[id].submissionAttempts) + 1) ]_vars

\* C5: in every reachable state each dispute's submissionAttempts holds at most
\* 20 entries, and a retry that appends to a full list leaves the newest 20 of
\* the old list followed by the new entry, in their order.
C5_AttemptsCapped ==
    /\ [](\A id \in DOMAIN disputes : Len(disputes[id].submissionAttempts) <= 20)
    /\ [][ out'.op = "retry_result" =>
             LET old == disputes[out'.id].submissionAttempts
                 new == disputes'[out'.id].submissionAttempts
                 all == Append(old, new[Len(new)])
             IN  /\ Len(new) = Min(20, Len(old) + 1)
                 /\ \A i \in 1..Len(new) : new[i] = all[Len(all) - Len(new) + i] ]_vars

\* C5 witness: a retry has appended to a full list and the oldest entry, the
\* one the event's reconciliation wrote, is gone.
C5_Witness ==
    /\ out.op = "retry_result"
    /\ Len(disputes[out.id].submissionAttempts) = 20
    /\ \A i \in 1..20 : ~disputes[out.id].submissionAttempts[i].success

\* C6: after a closed reconciliation the record has the event's status and
\* submitted = true, and merchantId, evidenceScore, manualReviewRequired,
\* evidenceSummary, submissionAttempts, the deflection fields and the creation
\* time of the record that existed before; with no record before, one is
\* created with score 0, no manual review, empty summary and no attempts.
C6_ClosedReconciliation ==
    [][ ClosedStored' =>
          LET id == out'.id
              after == disputes'[id]
          IN  /\ id \in DOMAIN disputes'
              /\ after.status = out'.input.status
              /\ after.submitted
              /\ IF id \in DOMAIN disputes
                 THEN LET before == disputes[id]
                      IN  /\ after.merchantId = before.merchantId
                          /\ after.evidenceScore = before.evidenceScore
                          /\ after.manualReviewRequired = before.manualReviewRequired
                          /\ after.evidenceSummary = before.evidenceSummary
                          /\ after.submissionAttempts = before.submissionAttempts
                          /\ after.deflected = before.deflected
                          /\ after.deflectionReason = before.deflectionReason
                          /\ after.deflectedAt = before.deflectedAt
                          /\ (before.disputeCreatedAt # NoTime
                                => after.disputeCreatedAt = before.disputeCreatedAt)
                 ELSE /\ after.evidenceScore = 0
                      /\ ~after.manualReviewRequired
                      /\ after.evidenceSummary = << >>
                      /\ after.submissionAttempts = << >> ]_vars

\* C6 witness: a closed event has been reconciled into a record that was
\* scored, flagged for manual review and deflected, with its attempt history.
C6_Witness ==
    /\ ClosedStored
    /\ disputes[out.id].status = "won"
    /\ disputes[out.id].evidenceScore > 0
    /\ disputes[out.id].manualReviewRequired
    /\ disputes[out.id].deflected
    /\ disputes[out.id].submissionAttempts # << >>
    /\ disputes[out.id].disputeCreatedAt # out.input.created

\* The handler of a created/updated event that a step brings to its call of
\* disputes.update, and the one whose call a step answers.
Decides(slot) ==
    /\ ops'[slot].kind = "webhook" /\ ops'[slot].phase = "update"
    /\ ops[slot] # ops'[slot]

Stores(slot) ==
    /\ ops[slot].kind = "webhook" /\ ops[slot].phase = "update"
    /\ ops'[slot] = Idle
    /\ UpsertStored'

\* C7: on a created/updated event shouldAutoSubmit is true exactly when
\* auto-submit is enabled, the reason is allowed, the score reaches
\* minEvidenceScore, the amount is below manualReviewAmountThreshold and the
\* delay window is satisfied; the payload sent to the processor carries
\* submit = shouldAutoSubmit, and the stored record gets
\* submitted = shouldAutoSubmit and manualReviewRequired = (amount >= threshold).
C7_DecisionExact ==
    [][ \A slot \in DOMAIN ops :
          /\ Decides(slot) =>
               LET h == ops'[slot]
                   gates ==
                     /\ h.settings.autoSubmitEnabled
                     /\ (h.settings.autoSubmitReasons = {}
                           \/ h.dispute.reason \in h.settings.autoSubmitReasons)
                     /\ h.score >= h.settings.minEvidenceScore
                     /\ h.dispute.amount < h.settings.manualReviewAmountThreshold
                     /\ (h.settings.submissionDelayMinutes = 0
                           \/ now >= h.dispute.created + 60 * h.settings.submissionDelayMinutes)
               IN  /\ h.shouldAutoSubmit = gates
                   /\ out'.call = Call("disputes.update", h.dispute.id, gates)
          /\ Stores(slot) =>
               LET h == ops[slot]
                   after == disputes'[h.dispute.id]
               IN  /\ after.submitted = h.shouldAutoSubmit
                   /\ after.manualReviewRequired
                        = (h.dispute.amount >= h.settings.manualReviewAmountThreshold) ]_vars

\* C7 witness: an event has been auto-submitted under a policy with a reason
\* allow-list and a delay window, every gate holding.
C7_Witness ==
    /\ UpsertStored
    /\ settings.autoSubmitReasons # {}
    /\ settings.submissionDelayMinutes > 0
    /\ disputes[out.id].submitted
    /\ disputes[out.id].submissionAttempts[1].message = "Auto-submitted successfully."
    /\ ~disputes[out.id].manualReviewRequired

\* The readiness rules in their order, each with its condition, reason and
\* priority.
ReadinessRules(d, s, t) ==
    << [ hit |-> d.status \in {"won", "lost"}, reason |-> "closed", priority |-> 0 ],
       [ hit |-> d.submitted, reason |-> "already_submitted", priority |-> 0 ],
       [ hit |-> ~s.autoSubmitEnabled, reason |-> "auto_submit_disabled", priority |-> 20 ],
       [ hit |-> s.autoSubmitReasons # {} /\ d.reason \notin s.autoSubmitReasons,
         reason |-> "reason_not_allowed", priority |-> 25 ],
       [ hit |-> d.manualReviewRequired, reason |-> "manual_review_required", priority |-> 95 ],
       [ hit |-> /\ d.disputeCreatedAt > 0
                 /\ s.submissionDelayMinutes > 0
                 /\ t < d.disputeCreatedAt + 60 * s.submissionDelayMinutes,
         reason |-> "submission_delay_window_active", priority |-> 60 ],
       [ hit |-> d.evidenceScore < s.minEvidenceScore,
         reason |-> "score_below_threshold", priority |-> 85 ] >>

\* C8: readiness is decided by the first matching rule in the order closed (0),
\* already_submitted (0), auto_submit_disabled (20), reason_not_allowed (25),
\* manual_review_required (95), submission_delay_window_active (60),
\* score_below_threshold (85), each with ready = false and that priority;
\* with no rule matching the result is ready.
C8_ReadinessRuleOrder ==
    \A id \in DOMAIN disputes :
        LET rules == ReadinessRules(disputes[id], findSettings(disputes[id].merchantId), now)
            hits == { i \in DOMAIN rules : rules[i].hit }
            r == getSubmissionReadiness(disputes, id)
        IN  IF hits = {}
            THEN r.ready /\ r.reason = "ready"
            ELSE LET first == CHOOSE i \in hits : \A j \in hits : i <= j
                 IN  /\ ~r.ready
                     /\ r.reason = rules[first].reason
                     /\ r.priority = rules[first].priority

\* C8 witness: a retry of a dispute that requires manual review and scores
\* below the threshold has been answered manual_review_required.
C8_Witness ==
    /\ out.op = "retry"
    /\ out.message = "manual_review_required"
    /\ out.id \in DOMAIN disputes
    /\ disputes[out.id].manualReviewRequired
    /\ disputes[out.id].evidenceScore < findSettings(disputes[out.id].merchantId).minEvidenceScore

\* The record is as a reconciliation of this very event left it: the event's
\* fields, and the one attempt entry that the reconciliation wrote.
LeftByDeliveryOf(d, dispute) ==
    /\ d.chargeId = dispute.charge
    /\ d.reason = dispute.reason
    /\ d.amount = dispute.amount
    /\ d.status = dispute.status
    /\ d.dueBy = dispute.dueBy
    /\ d.disputeCreatedAt = dispute.created
    /\ Len(d.submissionAttempts) = 1
    /\ d.submissionAttempts[1].message
         = (IF d.submitted THEN "Auto-submitted successfully."
            ELSE "Evidence updated; pending review.")

\* C9: reconciling the same updated event twice in succession, the merchant
\* policy, evidence profile and charge context unchanged between the two,
\* leaves evidenceScore and submitted after the second delivery as they were
\* after the first.
C9_ReplayIdempotent ==
    [][ \A slot \in DOMAIN ops :
          ( /\ Stores(slot)
            /\ ops[slot].dispute.id \in DOMAIN disputes
            /\ LeftByDeliveryOf(disputes[ops[slot].dispute.id], ops[slot].dispute) )
          => /\ disputes'[ops[slot].dispute.id].evidenceScore
                  = disputes[ops[slot].dispute.id].evidenceScore
             /\ disputes'[ops[slot].dispute.id].submitted
                  = disputes[ops[slot].dispute.id].submitted ]_vars

\* C10: a retry for an id with no record returns ok = false with
\* dispute_not_found, a retry for a record that is not ready returns ok = false
\* with the readiness reason; in both cases no processor call is made, no
\* attempt is appended and no record is changed.
C10_RetryRefused ==
    [][ (out'.op = "retry" /\ ~getSubmissionReadiness(disputes, out'.id).ready)
          => /\ ~out'.ok
             /\ out'.message = getSubmissionReadiness(disputes, out'.id).reason
             /\ out'.message = "dispute_not_found" <=> out'.id \notin DOMAIN disputes
             /\ out'.call = NoCall
             /\ disputes' = disputes ]_vars

\* C10 witness: a retry of a stored dispute below the score threshold has been
\* refused.
C10_Witness ==
    /\ out.op = "retry"
    /\ out.id \in DOMAIN disputes
    /\ ~out.ok
    /\ out.message = "score_below_threshold"
    /\ out.call = NoCall

\* A retry of an id with no record has been refused.
RetryNotFound ==
    /\ out.op = "retry"
    /\ out.id \notin DOMAIN disputes
    /\ ~out.ok
    /\ out.message = "dispute_not_found"

\* new is old with the one entry a appended, the oldest entries dropped at
\* the cap of 20.
AppendedOne(old, new, a) ==
    LET all == Append(old, a)
    IN  /\ Len(new) = Min(20, Len(all))
        /\ \A i \in 1..Len(new) : new[i] = all[Len(all) - Len(new) + i]

\* C11: when a retry found the dispute ready and the processor accepts the
\* submission, the record ends with submitted = true and exactly one new
\* Attempt with success = true appended, and the retry returns ok = true with
\* message submitted.
C11_RetrySuccess ==
    [][ \A slot \in DOMAIN ops :
          (ops[slot].kind = "retry" /\ ops'[slot] = Idle /\ out'.ok) =>
            LET id == ops[slot].id
                new == disputes'[id].submissionAttempts
            IN  /\ disputes'[id].submitted
                /\ new # << >>
                /\ new[Len(new)].success
                /\ AppendedOne(disputes[id].submissionAttempts, new, new[Len(new)])
                /\ out'.id = id
                /\ out'.message = "submitted"
                /\ \A j \in DOMAIN disputes : j # id => disputes'[j] = disputes[j] ]_vars

\* C11 witness: a retry has submitted a dispute that the event's
\* reconciliation had left unsubmitted.
C11_Witness ==
    /\ out.op = "retry_result"
    /\ out.ok
    /\ disputes[out.id].submitted
    /\ Len(disputes[out.id].submissionAttempts) = 2
    /\ disputes[out.id].submissionAttempts[1].message = "Evidence updated; pending review."
    /\ disputes[out.id].submissionAttempts[2].success

\* C12: when a retry found the dispute ready and the processor call fails,
\* exactly one Attempt with success = false and the raw error message is
\* appended, submitted is left unchanged, the failure is returned as ok = false
\* with that message, and the call is not repeated within the same retry.
C12_RetryFailure ==
    [][ \A slot \in DOMAIN ops :
          (ops[slot].kind = "retry" /\ ops'[slot] # ops[slot] /\ ~out'.ok) =>
            LET id == ops[slot].id
                new == disputes'[id].submissionAttempts
            IN  /\ new # << >>
                /\ ~new[Len(new)].success
                /\ new[Len(new)].message \in ErrorMessages
                /\ AppendedOne(disputes[id].submissionAttempts, new, new[Len(new)])
                /\ disputes'[id].submitted = disputes[id].submitted
                /\ out'.id = id
                /\ out'.message = new[Len(new)].message
                /\ out'.call = NoCall
                /\ ops'[slot] = Idle ]_vars

\* C12 witness: a retry has failed at the processor and the dispute is still
\* unsubmitted, the error logged after the reconciliation's entry.
C12_Witness ==
    /\ out.op = "retry_result"
    /\ ~out.ok
    /\ ~disputes[out.id].submitted
    /\ Len(disputes[out.id].submissionAttempts) = 2
    /\ ~disputes[out.id].submissionAttempts[2].success
    /\ disputes[out.id].submissionAttempts[2].message = out.message

\* The sweep in a slot has its processor call answered by this step, with a
\* failure when the step spends one of the failures the processor may inject.
SweepAnswered(slot) == ops[slot].kind = "sweep" /\ ops'[slot] # ops[slot]

SweepCallFailed(slot) == SweepAnswered(slot) /\ failBudget' < failBudget

\* C13: in a sweep over N open unsubmitted disputes a failed processor call
\* for one dispute does not stop the sweep: the failure is logged on that
\* dispute only, and the sweep goes on exactly as after a success, with a
\* submission for the next of the remaining disputes that is ready and, after
\* it, the rest of the list.
C13_SweepIsolation ==
    [][ \A slot \in DOMAIN ops : SweepAnswered(slot) =>
          LET id == Head(ops[slot].pending)
              rest == Tail(ops[slot].pending)
              ready == { i \in 1..Len(rest) : getSubmissionReadiness(disputes', rest[i]).ready }
          IN  /\ \A j \in DOMAIN disputes : j # id => disputes'[j] = disputes[j]
              /\ SweepCallFailed(slot) =>
                   /\ disputes'[id].submitted = disputes[id].submitted
                   /\ ~disputes'[id].submissionAttempts[Len(disputes'[id].submissionAttempts)].success
              /\ IF ready = {}
                 THEN ops'[slot] = Idle /\ out'.call = NoCall
                 ELSE LET k == CHOOSE i \in ready : \A j \in ready : i <= j
                      IN  /\ ops'[slot].kind = "sweep"
                          /\ ops'[slot].pending = SubSeq(rest, k, Len(rest))
                          /\ out'.call = Call("disputes.update", rest[k], TRUE) ]_vars

\* C13 witness: in a sweep over three disputes the call for one has failed
\* and the sweep is at the processor for the next, a third still to come.
C13_Witness ==
    /\ out.op = "sweep"
    /\ ~out.ok
    /\ out.call = Call("disputes.update", out.id, TRUE)
    /\ \E slot \in DOMAIN ops :
          /\ ops[slot].kind = "sweep"
          /\ Len(ops[slot].pending) = 2
          /\ Head(ops[slot].pending) = out.id
    /\ \E a \in DOMAIN disputes :
          /\ a # out.id
          /\ ~disputes[a].submitted
          /\ ~disputes[a].submissionAttempts[Len(disputes[a].submissionAttempts)].success

\* The handler in a slot is waiting for the processor to answer a call that
\* submits a dispute, and the dispute the call is for.
SubmissionInFlight(slot) ==
    \/ ops[slot].kind = "webhook" /\ ops[slot].phase = "update" /\ ops[slot].payload.submit
    \/ ops[slot].kind = "retry"
    \/ ops[slot].kind = "sweep"

SubmissionTarget(slot) ==
    IF ops[slot].kind = "webhook" THEN ops[slot].dispute.id
    ELSE IF ops[slot].kind = "retry" THEN ops[slot].id
    ELSE Head(ops[slot].pending)

\* C14: whenever a processor submission call made for a dispute fails, on any
\* path (created/updated reconciliation, retry, sweep), a failed Attempt
\* (success = false, message = the error message) is recorded on that
\* dispute's record.
C14_FailureRecorded ==
    [][ \A slot \in DOMAIN ops :
          (SubmissionInFlight(slot) /\ ops'[slot] # ops[slot] /\ failBudget' < failBudget) =>
            LET id == SubmissionTarget(slot)
            IN  /\ id \in DOMAIN disputes'
                /\ disputes'[id].submissionAttempts # << >>
                /\ LET new == disputes'[id].submissionAttempts
                       old == IF id \in DOMAIN disputes THEN disputes[id].submissionAttempts
                              ELSE << >>
                   IN  /\ ~new[Len(new)].success
                       /\ new[Len(new)].message \in ErrorMessages
                       /\ AppendedOne(old, new, new[Len(new)]) ]_vars

\* C15: a deflection request on a dispute whose record already has
\* deflected = true returns success with the already_deflected indicator,
\* issues no refund call and leaves the record unchanged.
C15_DeflectAgain ==
    [][ (out'.op = "deflect" /\ out'.id \in DOMAIN disputes /\ disputes[out'.id].deflected)
          => /\ out'.ok
             /\ out'.status = 200
             /\ out'.message = "already_deflected"
             /\ out'.call = NoCall
             /\ disputes' = disputes ]_vars

\* C16: a deflection issues a refund only when the dispute is open (status
\* neither won nor lost), not yet deflected and has a known charge id.
C16_RefundOnlyWhenOpen ==
    [][ (out'.op = "deflect" /\ out'.call # NoCall)
          => /\ out'.id \in DOMAIN disputes
             /\ disputes[out'.id].status \notin {"won", "lost"}
             /\ ~disputes[out'.id].deflected
             /\ disputes[out'.id].chargeId # Undef ]_vars

\* C17: once a dispute has deflected = true, no later created/updated
\* reconciliation, retry or sweep issues a submit = true call to the
\* processor for it.
C17_DeflectedNotSubmitted ==
    [][ (out'.call.kind = "disputes.update" /\ out'.call.submit
           /\ out'.call.id \in DOMAIN disputes)
          => ~disputes[out'.call.id].deflected ]_vars

\* C18: once a dispute's stored status is won or lost, its record is changed
\* by no operation other than a closed reconciliation.
C18_TerminalReadOnly ==
    [][ \A id \in DOMAIN disputes :
          (disputes[id].status \in {"won", "lost"} /\ ~ClosedStored')
            => disputes'[id] = disputes[id] ]_vars

\* The merchant's history as the optimizer finds it: the observed reasons, and
\* per reason the number of the merchant's disputes and of those won.
Observed == { disputes[i].reason : i \in { j \in DOMAIN disputes : disputes[j].merchantId = "m_1" } }

CasesOf(r) ==
    Cardinality({ i \in DOMAIN disputes : disputes[i].merchantId = "m_1" /\ disputes[i].reason = r })

WinsOf(r) ==
    Cardinality({ i \in DOMAIN disputes :
                    /\ disputes[i].merchantId = "m_1"
                    /\ disputes[i].reason = r
                    /\ disputes[i].status = "won" })

\* at least minCases disputes and a win rate in percent below minWinRatePct
Risky(r, minCases, minWinRatePct) ==
    CasesOf(r) >= minCases /\ 100 * WinsOf(r) < minWinRatePct * CasesOf(r)

Optimized == out.op = "optimize" /\ out.status = 200

\* C19: optimizeReasons classifies a reason as risky exactly when it has at
\* least minCases observed disputes and a win rate below minWinRatePct (3 and
\* 30 when the request gives none); when at least one observed reason is not
\* risky, the resulting allow-list contains every observed non-risky reason
\* and no risky reason.
C19_OptimizerClassifies ==
    [][ Optimized' =>
          LET a == out'.input.answer
              risky(r) == Risky(r, a.minCases, a.minWinRatePct)
          IN  /\ out'.input.minCases > 0 => a.minCases = out'.input.minCases
              /\ out'.input.minCases = NoTime => a.minCases = 3
              /\ out'.input.minWinRatePct > 0 => a.minWinRatePct = out'.input.minWinRatePct
              /\ out'.input.minWinRatePct = NoTime => a.minWinRatePct = 30
              /\ a.riskyReasons = { r \in Observed : risky(r) }
              /\ (\E r \in Observed : ~risky(r)) =>
                   /\ \A r \in Observed : ~risky(r) => r \in settings'.autoSubmitReasons
                   /\ \A r \in Observed : risky(r) => r \notin settings'.autoSubmitReasons ]_vars

\* C19 witness: under the default thresholds fraudulent has been classified
\* risky and duplicate not, and the allow-list written is duplicate alone.
C19_Witness ==
    /\ Optimized
    /\ out.input.minCases = NoTime /\ out.input.minWinRatePct = NoTime
    /\ Observed = {"fraudulent", "duplicate"}
    /\ out.input.answer.riskyReasons = {"fraudulent"}
    /\ settings.autoSubmitReasons = {"duplicate"}

\* C20: when every observed reason is risky, or no reason has been observed,
\* optimizeReasons leaves the merchant's allow-list equal to the list it had
\* before.
C20_OptimizerFallback ==
    [][ ( /\ Optimized'
          /\ \A r \in Observed :
               Risky(r, out'.input.answer.minCases, out'.input.answer.minWinRatePct) )
          => settings'.autoSubmitReasons = settings.autoSubmitReasons ]_vars

\* C20 witness: fraudulent, the only observed reason and risky under the
\* default thresholds, is still the merchant's allow-list after the optimizer.
C20_Witness ==
    /\ Optimized
    /\ out.input.minCases = NoTime /\ out.input.minWinRatePct = NoTime
    /\ Observed = {"fraudulent"}
    /\ out.input.answer.riskyReasons = {"fraudulent"}
    /\ out.message = "kept current auto-submit list"
    /\ settings.autoSubmitReasons = {"fraudulent"}

\* C21: optimizeReasons changes only the merchant's autoSubmitReasons:
\* autoSubmitEnabled and every other policy setting, the evidence profile and
\* all dispute records are the same before and after.
C21_OptimizerFrame ==
    [][ out'.op = "optimize" =>
          /\ DOMAIN settings' = DOMAIN settings
          /\ \A k \in DOMAIN settings \ {"autoSubmitReasons"} : settings'[k] = settings[k]
          /\ profile' = profile
          /\ disputes' = disputes
          /\ ops' = ops ]_vars

\* C21 witness: the optimizer has replaced the allow-list of a merchant with
\* stored disputes, auto-submit still off.
C21_Witness ==
    /\ Optimized
    /\ out.message = "auto-submit reasons updated"
    /\ settings.autoSubmitReasons = {"fraudulent", "duplicate"}
    /\ ~settings.autoSubmitEnabled
    /\ DOMAIN disputes # {}

\* The allow-list of the policy s blocks the reason: it is non-empty and does
\* not contain it.
Blocks(s, reason) == s.autoSubmitReasons # {} /\ reason \notin s.autoSubmitReasons

\* C22: in both gates that consult the reason allow-list an empty list allows
\* every reason and a reason is blocked only by a non-empty list that does not
\* contain it: readiness answers reason_not_allowed only then, and the
\* decision on a created/updated event is the other four gates together with
\* the reason not being blocked.
C22_EmptyListAllowsAll ==
    /\ [](\A id \in DOMAIN disputes :
            LET d == disputes[id]
                s == findSettings(d.merchantId)
                r == getSubmissionReadiness(disputes, id)
            IN  /\ r.reason = "reason_not_allowed" => Blocks(s, d.reason)
                /\ ( /\ Blocks(s, d.reason)
                     /\ d.status \notin {"won", "lost"}
                     /\ ~d.submitted
                     /\ s.autoSubmitEnabled ) => r.reason = "reason_not_allowed")
    /\ [][ \A slot \in DOMAIN ops : Decides(slot) =>
             LET h == ops'[slot]
                 others ==
                   /\ h.settings.autoSubmitEnabled
                   /\ h.score >= h.settings.minEvidenceScore
                   /\ h.dispute.amount < h.settings.manualReviewAmountThreshold
                   /\ (h.settings.submissionDelayMinutes = 0
                         \/ now >= h.dispute.created + 60 * h.settings.submissionDelayMinutes)
             IN  h.shouldAutoSubmit = (others /\ ~Blocks(h.settings, h.dispute.reason)) ]_vars

\* C22 witness: under an empty allow-list an event has been auto-submitted.
C22_Witness ==
    /\ UpsertStored
    /\ settings.autoSubmitReasons = {}
    /\ settings.autoSubmitEnabled
    /\ disputes[out.id].submitted
    /\ disputes[out.id].submissionAttempts[1].message = "Auto-submitted successfully."

\* C23: when the merchant of a dispute cannot be found, created/updated
\* reconciliation, readiness evaluation and retry surface a not-found outcome
\* and do not proceed: the handler of an event of an unknown account goes to
\* no processor call, and a retry of a record without a known merchant is
\* refused as not found with no call.
C23_MerchantNotFound ==
    [][ /\ \A slot \in DOMAIN ops :
             (ops'[slot] # ops[slot] /\ ops'[slot].kind = "webhook")
               => MerchantIdOf(ops'[slot].account) # Undef
        /\ ( /\ out'.op = "retry"
             /\ out'.id \in DOMAIN disputes
             /\ disputes[out'.id].merchantId # "m_1" )
             => /\ ~out'.ok
                /\ out'.call = NoCall
                /\ out'.message \in {"merchant_not_found", "dispute_not_found"} ]_vars

\* The entries of the queue the last step answered with
Answered == out.op = "queue"

QueueOf(o) == { o.input.answer.queue[k] : k \in 1..Len(o.input.answer.queue) }

\* The deadline urgency as stated: 50 without a due date, 100 when the due
\* date is past, 98 up to 4 hours ahead (from the due instant itself on), 90
\* up to 24 hours, 80 up to 48 hours, 65 beyond.
StatedDueUrgency(dueBy, t) ==
    IF dueBy = NoTime THEN 50
    ELSE IF dueBy < t THEN 100
    ELSE IF dueBy - t <= 4 * 60 * 60 THEN 98
    ELSE IF dueBy - t <= 24 * 60 * 60 THEN 90
    ELSE IF dueBy - t <= 48 * 60 * 60 THEN 80
    ELSE 65

\* round(amount / 5000), the integer nearest to the quotient
StatedRound(amount) == CHOOSE n \in 0..(amount \div 5000 + 1) :
                          /\ 2 * 5000 * n <= 2 * amount + 5000
                          /\ 2 * amount + 5000 < 2 * 5000 * (n + 1)

StatedPriority(e, t) ==
    LET sum == StatedDueUrgency(e.dueBy, t) + (IF StatedRound(e.amount) < 25
                                                THEN StatedRound(e.amount) ELSE 25)
    IN  IF sum < 100 THEN sum ELSE 100

\* C24: every ready dispute of a queue answer has the priority
\* min(100, dueUrgency + amountUrgency) of the stated step function of the
\* time to its due date and of its amount, a number from 50 to 100.
C24_ReadyPriority ==
    [][ out'.op = "queue" =>
          \A e \in QueueOf(out') :
              e.readiness.ready =>
                /\ e.readiness.priority = StatedPriority(e, now)
                /\ e.readiness.priority \in 50..100 ]_vars

\* The band of a due date at the instant t: 1 overdue, 2 due within 4 hours,
\* 3 within 24 hours, 4 within 48 hours, 5 beyond
Band(dueBy, t) ==
    IF dueBy < t THEN 1
    ELSE IF dueBy - t <= 4 * 60 * 60 THEN 2
    ELSE IF dueBy - t <= 24 * 60 * 60 THEN 3
    ELSE IF dueBy - t <= 48 * 60 * 60 THEN 4
    ELSE 5

Overdue(e, t) == e.dueBy # NoTime /\ e.dueBy < t

DueIn72h(e, t) == e.dueBy = t + 72 * 60 * 60

\* C25 as amended: of two ready disputes of a queue answer, one whose due
\* date is past has a strictly higher priority than one due in 72 hours,
\* whatever their amounts.
C25_OverdueAboveReady ==
    [][ out'.op = "queue" =>
          \A a, b \in QueueOf(out') :
              ( /\ a.readiness.ready /\ b.readiness.ready
                /\ Overdue(a, now) /\ DueIn72h(b, now) )
                => a.readiness.priority > b.readiness.priority ]_vars

\* C25 witness: the queue answered with a ready overdue dispute of the small
\* amount and a ready dispute of the large amount due in 72 hours.
C25_Witness ==
    /\ Answered
    /\ \E a, b \in QueueOf(out) :
          /\ a.readiness.ready /\ b.readiness.ready
          /\ Overdue(a, now) /\ DueIn72h(b, now)
          /\ a.amount = 2499 /\ b.amount = 125000

\* C25 as stated: of any two open disputes of a queue answer, ready or not,
\* the overdue one has a strictly higher priority than the one due in 72
\* hours.
C25_OverdueAboveOpen ==
    [][ out'.op = "queue" =>
          \A a, b \in QueueOf(out') :
              (Overdue(a, now) /\ DueIn72h(b, now))
                => a.readiness.priority > b.readiness.priority ]_vars

\* C26: of two ready disputes of a queue answer, the one in the more urgent
\* band has a strictly higher priority, whatever the two amounts.
C26_BandDominates ==
    [][ out'.op = "queue" =>
          \A a, b \in QueueOf(out') :
              ( /\ a.readiness.ready /\ b.readiness.ready
                /\ a.dueBy # NoTime /\ b.dueBy # NoTime
                /\ Band(a.dueBy, now) < Band(b.dueBy, now) )
                => a.readiness.priority > b.readiness.priority ]_vars

\* The open disputes a queue request is about: those neither won nor lost, of
\* the requested merchant when one is given
OpenOf(merchantId) ==
    { i \in DOMAIN disputes :
        /\ disputes[i].status \notin {"won", "lost"}
        /\ merchantId # Undef => disputes[i].merchantId = merchantId }

\* The number of entries of the queue q whose readiness has the reason r
WithReason(q, r) == Cardinality({ k \in 1..Len(q) : q[k].readiness.reason = r })

\* C27: a queue answer lists exactly the open disputes of the request, each
\* once and with its readiness, in an order of non-increasing priority; the
\* counts ready, manualReview, delayWindow, blockedByScore and blockedByReason
\* are the numbers of entries with that readiness reason and totalOpen is the
\* length of the queue.
C27_QueueView ==
    [][ out'.op = "queue" =>
          LET q == out'.input.answer.queue
              sum == out'.input.answer.summary
          IN  /\ { q[k].id : k \in 1..Len(q) } = OpenOf(out'.input.merchantId)
              /\ Len(q) = Cardinality(OpenOf(out'.input.merchantId))
              /\ \A k \in 1..Len(q) :
                    /\ q[k].readiness = getSubmissionReadiness(disputes, q[k].id)
                    /\ q[k].readiness.ready = (q[k].readiness.reason = "ready")
              /\ \A k \in 1..(Len(q) - 1) :
                    q[k].readiness.priority >= q[k + 1].readiness.priority
              /\ sum.totalOpen = Len(q)
              /\ sum.ready = WithReason(q, "ready")
              /\ sum.manualReview = WithReason(q, "manual_review_required")
              /\ sum.delayWindow = WithReason(q, "submission_delay_window_active")
              /\ sum.blockedByScore = WithReason(q, "score_below_threshold")
              /\ sum.blockedByReason = WithReason(q, "reason_not_allowed") ]_vars

\* C27 witness: the queue of merchant m_1 answered with two entries of
\* different priority, a ready one ahead of one whose reason is not allowed,
\* each counted.
C27_Witness ==
    /\ Answered
    /\ out.input.merchantId = "m_1"
    /\ Len(out.input.answer.queue) = 2
    /\ out.input.answer.queue[1].readiness.priority > out.input.answer.queue[2].readiness.priority
    /\ out.input.answer.summary.ready = 1
    /\ out.input.answer.summary.blockedByReason = 1

\* A field of an evidence input is given: it is there and not empty
Given(i, f) == i[f] # Undef /\ i[f] # ""

\* The stated weights of the evidence fields
StatedWeight ==
    [ customerName |-> 10, customerEmail |-> 10, productDescription |-> 15,
      supportInteraction |-> 15, termsUrl |-> 10, refundPolicyUrl |-> 10,
      cancellationPolicyUrl |-> 10, accessLog |-> 10, shippingTrackingNumber |-> 10 ]

RECURSIVE StatedSum(_, _)
StatedSum(i, fields) ==
    IF fields = {} THEN 0
    ELSE LET f == CHOOSE g \in fields : TRUE
         IN  (IF Given(i, f) THEN StatedWeight[f] ELSE 0) + StatedSum(i, fields \ {f})

\* C28: the evidence score of every input is the sum of the stated weights of
\* the fields given, capped at 100, a number from 0 to 100; a field that is
\* absent adds nothing, and the scorer answers for every input.
C28_EvidenceScore ==
    /\ [](\A slot \in DOMAIN ops : ops[slot].kind = "evidence" => ENABLED BuildEvidence(slot))
    /\ [][ out'.op = "evidence" =>
             LET i == out'.input.evidence
                 sum == StatedSum(i, DOMAIN StatedWeight)
             IN  /\ out'.input.answer.score = (IF sum < 100 THEN sum ELSE 100)
                 /\ out'.input.answer.score \in 0..100 ]_vars

\* C28 witness: an input with name and email and nothing else scored 20.
C28_Witness ==
    /\ out.op = "evidence"
    /\ out.input.evidence.customerName = "x"
    /\ out.input.evidence.customerEmail = "x"
    /\ out.input.evidence.productDescription = Undef
    /\ out.input.evidence.shippingTrackingNumber = ""
    /\ out.input.answer.score = 20

\* The handler in the slot has computed its decision and the record it will
\* write and waits for the processor, and the step just taken completed
\* another operation on the same dispute: a retry that submitted it, a
\* deflection that refunded it, or the reconciliation of its closing.
WrittenMeanwhile(slot) ==
    /\ ops[slot].kind = "webhook" /\ ops[slot].phase = "update"
    /\ out.id = ops[slot].dispute.id
    /\ out.status = 200 /\ out.ok
    /\ out.op \in {"retry_result", "deflect_result", "webhook_closed"}

\* C29: a value written to a record by a completed operation is not reverted
\* by an operation that computed its decision and its values before that
\* write: when a retry, a deflection or a closing completes while the handler
\* of an event is suspended, the handler's write that follows keeps the
\* record submitted, closed and deflected as that operation left it.
C29_NoLostUpdate ==
    [][ \A slot \in DOMAIN ops :
          (WrittenMeanwhile(slot) /\ Stores(slot)) =>
            LET id == ops[slot].dispute.id
            IN  /\ disputes[id].submitted => disputes'[id].submitted
                /\ Closed(disputes[id].status) => disputes'[id].status = disputes[id].status
                /\ disputes[id].deflected => disputes'[id].deflected ]_vars

\* The disputes a sweep still has to attempt after this step: the list of its
\* slot, nothing once the slot is idle again
Remaining(op) == IF op.kind = "sweep" THEN op.pending ELSE << >>

Elements(q) == { q[k] : k \in 1..Len(q) }

\* The attempt for the dispute id returns without a processor call
NoCallFor(db, id) == ~getSubmissionReadiness(db, id).ready

\* C30: a sweep runs to its end and attempts every dispute that was open and
\* unsubmitted at its start exactly once.  At its start every such dispute is
\* either on the list of the sweep, once, or its attempt has returned without
\* a processor call; every answer of the processor takes the dispute it was
\* for off the list together with the disputes after it whose attempt
\* returns without a call, and leaves the rest of the list as it was; and a
\* sweep that is suspended at the processor is over in the end, whatever
\* events, retries and other sweeps run in between.
C30_SweepCompletes ==
    /\ [][ (out'.op = "sweep" /\ disputes' # disputes) =>
             \E slot \in DOMAIN ops : SweepAnswered(slot) ]_vars
    /\ [][ \A slot \in DOMAIN ops :
             /\ (ops[slot] = Idle /\ ops'[slot] # Idle /\ ops'[slot].kind = "sweep") =>
                  LET q == ops'[slot].pending
                  IN  /\ Elements(q) \subseteq pendingIds(disputes)
                      /\ Cardinality(Elements(q)) = Len(q)
                      /\ ~NoCallFor(disputes, Head(q))
                      /\ \A id \in pendingIds(disputes) \ Elements(q) : NoCallFor(disputes, id)
             /\ (out'.op = "sweep" /\ out'.status = 200 /\ ops' = ops) =>
                  \A id \in pendingIds(disputes) : NoCallFor(disputes, id)
             /\ SweepAnswered(slot) =>
                  LET q == Remaining(ops'[slot])
                      rest == Tail(ops[slot].pending)
                  IN  /\ IsSuffix(q, rest)
                      /\ q # << >> => ~NoCallFor(disputes', Head(q))
                      /\ \A k \in 1..(Len(rest) - Len(q)) : NoCallFor(disputes', rest[k]) ]_vars
    /\ \A slot \in {"s1", "s2"} : (ops[slot].kind = "sweep") ~> (ops[slot] = Idle)

\* C30 witness: a sweep over two disputes is at the processor for the first
\* while a retry of the second is at the processor in the other request.
C30_Witness ==
    /\ ops["s1"].kind = "sweep"
    /\ Len(ops["s1"].pending) = 2
    /\ ops["s2"].kind = "retry"
    /\ ops["s2"].id = ops["s1"].pending[2]

\* The processor has accepted a submit = true call for the dispute before: the
\* record is submitted and the last entry of its history is the success of an
\* auto-submission or of a retry.
AcceptedBefore(id) ==
    /\ id \in DOMAIN disputes
    /\ disputes[id].submitted
    /\ disputes[id].submissionAttempts # << >>
    /\ LET last == disputes[id].submissionAttempts[Len(disputes[id].submissionAttempts)]
       IN  /\ last.success
           /\ last.message \in {"Auto-submitted successfully.", "Auto retry submission successful."}

\* The processor accepts with this step the submit = true call the handler in
\* the slot waits for
SubmitAccepted(slot) ==
    /\ SubmissionInFlight(slot)
    /\ ops'[slot] # ops[slot]
    /\ failBudget' = failBudget

\* C31: the processor accepts at most one submit = true call per dispute: no
\* created/updated reconciliation, retry or sweep has a submit = true call
\* accepted for a dispute for which one was accepted before.
C31_SubmittedOnce ==
    [][ \A slot \in DOMAIN ops :
          SubmitAccepted(slot) => ~AcceptedBefore(SubmissionTarget(slot)) ]_vars

\* The processor issues with this step the refund the deflection in the slot
\* waits for
RefundIssued(slot) ==
    /\ ops[slot].kind = "deflect"
    /\ ops'[slot] = Idle
    /\ out'.op = "deflect_result" /\ out'.ok

\* C32: at most one refund is issued per dispute, also when two deflection
\* requests for it are in flight together: no refund is issued for a dispute
\* whose record says that one has been issued.
C32_RefundedOnce ==
    [][ \A slot \in DOMAIN ops :
          RefundIssued(slot) => ~disputes[ops[slot].id].deflected ]_vars

\* The record of the dispute is submitted
IsSubmitted(db, id) == id \in DOMAIN db /\ db[id].submitted

\* C33: a record has submitted = true only through an accepted submit = true
\* call or a reconciled closed event: every step that takes a record to
\* submitted = true is the acceptance of a submit = true call for that dispute
\* or the reconciliation of a closed event for it, and a step in which a
\* processor call fails takes no record to submitted = true.
C33_SubmittedOnlyWhenAccepted ==
    [][ \A id \in DOMAIN disputes' :
          (IsSubmitted(disputes', id) /\ ~IsSubmitted(disputes, id)) =>
            /\ failBudget' = failBudget
            /\ \/ ClosedStored' /\ out'.id = id
               \/ \E slot \in DOMAIN ops : SubmitAccepted(slot) /\ SubmissionTarget(slot) = id ]_vars

\* C33 witness: the processor has refused the call of a retry and the record
\* is not submitted, the failure being the last entry of its history.
C33_Witness ==
    /\ out.op = "retry_result"
    /\ ~out.ok
    /\ failBudget < MaxFailures
    /\ ~IsSubmitted(disputes, out.id)
    /\ ~disputes[out.id].submissionAttempts[Len(disputes[out.id].submissionAttempts)].success

\* A step that issues a submit = true call to the processor, the dispute it
\* is for, and the slot whose handler issues it
IssuesSubmit == out'.call.kind = "disputes.update" /\ out'.call.submit

Issuer(slot) ==
    /\ ops'[slot] # ops[slot]
    /\ ops'[slot].kind \in {"webhook", "retry", "sweep"}

\* What the issuing handler submits: the reason, the evidence score and the
\* creation time of the event it reconciles, or of the stored record when it
\* is a retry or a sweep.
SubmittedReason(slot) ==
    IF ops'[slot].kind = "webhook" THEN ops'[slot].dispute.reason
    ELSE disputes[out'.call.id].reason

SubmittedScore(slot) ==
    IF ops'[slot].kind = "webhook" THEN ops'[slot].score
    ELSE disputes[out'.call.id].evidenceScore

SubmittedCreated(slot) ==
    IF ops'[slot].kind = "webhook" THEN ops'[slot].dispute.created
    ELSE disputes[out'.call.id].disputeCreatedAt

\* C34: when a submit = true call is issued, by a created/updated
\* reconciliation, a retry or a sweep, the policy of the merchant as stored at
\* that moment has auto-submit on, allows the reason, has a score threshold
\* the evidence reaches and a delay that has elapsed since the creation time.
C34_SubmitOnlyWhenAllowed ==
    [][ IssuesSubmit =>
          \A slot \in DOMAIN ops : Issuer(slot) =>
            /\ settings.autoSubmitEnabled
            /\ ~Blocks(settings, SubmittedReason(slot))
            /\ SubmittedScore(slot) >= settings.minEvidenceScore
            /\ now - SubmittedCreated(slot) >= settings.submissionDelayMinutes * 60 ]_vars

SubmittedAmount(slot) ==
    IF ops'[slot].kind = "webhook" THEN ops'[slot].dispute.amount
    ELSE disputes[out'.call.id].amount

\* C35: no submit = true call is issued for a dispute whose amount is at or
\* above the manual review threshold the merchant's stored policy has when
\* the call is issued, whenever the threshold was written.
C35_NoSubmitAboveThreshold ==
    [][ IssuesSubmit =>
          \A slot \in DOMAIN ops : Issuer(slot) =>
            SubmittedAmount(slot) < settings.manualReviewAmountThreshold ]_vars

\* C36: optimizeReasons removes only risky reasons from the allow-list: a
\* reason that is in the list before the optimizer runs and is not risky, be it
\* observed or not, is not blocked by the policy the optimizer leaves.
C36_OnlyRiskyRemoved ==
    [][ Optimized' =>
          \A r \in settings.autoSubmitReasons :
            ~Risky(r, out'.input.answer.minCases, out'.input.answer.minWinRatePct)
              => ~Blocks(settings', r) ]_vars

\* The refund call of the deflection in the slot fails with this step
RefundFailed(slot) ==
    /\ ops[slot].kind = "deflect"
    /\ ops'[slot] = Idle
    /\ out'.op = "deflect_result" /\ ~out'.ok

\* The fields a deflection writes
DeflectionFields == {"deflected", "deflectionReason", "deflectedAt", "updatedAt"}

\* C37: a deflection whose refund is issued sets deflected, deflectionReason
\* and deflectedAt of the record and, updatedAt apart, changes no other field
\* of it and no other record; a deflection whose refund call fails leaves
\* every record as it was, deflected not set, and answers 500 deflection_failed.
C37_DeflectionFrame ==
    [][ \A slot \in DOMAIN ops :
          LET id == ops[slot].id
          IN  /\ RefundIssued(slot) =>
                   /\ DOMAIN disputes' = DOMAIN disputes
                   /\ \A i \in DOMAIN disputes \ {id} : disputes'[i] = disputes[i]
                   /\ \A k \in DOMAIN disputes[id] \ DeflectionFields :
                        disputes'[id][k] = disputes[id][k]
                   /\ disputes'[id].deflected
                   /\ disputes'[id].deflectionReason = "Proactive refund issued"
                   /\ disputes'[id].deflectedAt = now
                   /\ disputes'[id].updatedAt = now
              /\ RefundFailed(slot) =>
                   /\ disputes' = disputes
                   /\ ~disputes'[id].deflected
                   /\ out'.status = 500 /\ out'.message = "deflection_failed" ]_vars

\* C37 witness: a dispute that had been submitted has been deflected after a
\* refund: it is deflected, still submitted and still open.
C37_Witness ==
    /\ out.op = "deflect_result" /\ out.ok
    /\ out.id \in DOMAIN disputes
    /\ disputes[out.id].deflected
    /\ disputes[out.id].deflectedAt = now
    /\ disputes[out.id].submitted
    /\ disputes[out.id].status = "needs_response"

\* The human-assigned triage fields of a record
TriageFields == {"owner", "workflowStatus", "nextActionAt", "internalNotes"}

\* The fields of the automation a workflow update has no say in
AutomationFields == {"status", "submitted", "deflected", "evidenceScore"}

SameFields(id, fields) == \A k \in fields : disputes'[id][k] = disputes[id][k]

\* C38: owner, workflowStatus, nextActionAt and internalNotes of an existing
\* record are changed by workflow updates only (no created, updated or closed
\* reconciliation, retry, sweep or deflection changes them), and a workflow
\* update changes none of status, submitted, deflected and evidenceScore.
C38_TriageFrame ==
    [][ \A id \in DOMAIN disputes :
          /\ out'.op # "workflow" => SameFields(id, TriageFields)
          /\ out'.op = "workflow" => SameFields(id, AutomationFields) ]_vars

\* C38 witness: a dispute an operator had assigned and annotated has been
\* submitted, deflected and then closed as won, and is still assigned and
\* annotated.
C38_Witness ==
    /\ out.op = "webhook_closed"
    /\ out.id \in DOMAIN disputes
    /\ disputes[out.id].status = "won"
    /\ disputes[out.id].deflected
    /\ disputes[out.id].submissionAttempts # << >>
    /\ disputes[out.id].owner = "alice"
    /\ disputes[out.id].workflowStatus = "in_progress"
    /\ disputes[out.id].internalNotes = "called the customer"

\* The readiness of the dispute is ready
IsReady(id) == id \in DOMAIN disputes /\ getSubmissionReadiness(disputes, id).ready

\* The delay window is what holds the dispute
HeldByDelay(id) ==
    /\ id \in DOMAIN disputes
    /\ getSubmissionReadiness(disputes, id).reason = "submission_delay_window_active"

\* Every gate of the readiness but the delay window lets the dispute pass
OtherGatesPass(id) ==
    /\ id \in DOMAIN disputes
    /\ ~Closed(disputes[id].status)
    /\ ~disputes[id].submitted
    /\ settings.autoSubmitEnabled
    /\ ~Blocks(settings, disputes[id].reason)
    /\ ~disputes[id].manualReviewRequired
    /\ disputes[id].evidenceScore >= settings.minEvidenceScore

WindowElapsed(id) ==
    now - disputes[id].disputeCreatedAt >= settings.submissionDelayMinutes * 60

\* C39: with the periodic sweep running, a dispute whose readiness is ready is
\* marked submitted in the end, the processor failing finitely many calls; a
\* dispute only the delay window holds is ready as soon as the window has
\* elapsed, and is marked submitted in the end.
C39_SweepSubmitsInTheEnd ==
    /\ IsReady("dp_1") ~> IsSubmitted(disputes, "dp_1")
    /\ HeldByDelay("dp_1") ~> IsSubmitted(disputes, "dp_1")
    /\ [](OtherGatesPass("dp_1") => (IsReady("dp_1") <=> WindowElapsed("dp_1")))

\* C39 witness: the dispute the delay window held has been submitted by a
\* sweep after the window had elapsed and after the processor had failed a call.
C39_Witness ==
    /\ out.op = "sweep"
    /\ IsSubmitted(disputes, "dp_1")
    /\ settings.submissionDelayMinutes = 1
    /\ now > StartTime
    /\ failBudget < MaxFailures
    /\ LET a == disputes["dp_1"].submissionAttempts
       IN  /\ Len(a) >= 2
           /\ ~a[Len(a) - 1].success
           /\ a[Len(a)].success /\ a[Len(a)].message = "Auto retry submission successful."

====
